---- MODULE Spec2Model ----
(***************************************************************************)
(* A model of the turf-finder aggregation pipeline: the TTL cache          *)
(* (cache.ts), the Google Places client with its caches, the combined      *)
(* keyword search searchTurfs and the bounded-concurrency detail fetch     *)
(* getPlaceDetailsBatch (google.ts).                                       *)
(*                                                                         *)
(* One module, several specifications over one set of variables:           *)
(*   SpecCache     a single TtlCache instance under its public methods     *)
(*   SpecBatch     one run of getPlaceDetailsBatch                         *)
(*   SpecBatchLive the same run under fair scheduling                      *)
(*   SpecSearch    one run of searchTurfs                                  *)
(*   Spec          the four cached remote operations of the client         *)
(*   SpecKey, SpecRequest, SpecBuild, SpecTruncate                         *)
(*                 one call each of generateKey, of the request builders,  *)
(*                 of buildTurfResult and of truncateText                  *)
(*   SpecPipeline  one front-end request from the return of searchTurfs on *)
(* A specification leaves the variables of the others at their idle value. *)
(***************************************************************************)
EXTENDS Integers, Sequences, FiniteSets, TLC

VARIABLES
  \* ---- the clock, Date.now(), shared by every specification
  now,          \* current time in ms, relative to the start of the run
  ticks,        \* how many times the clock has advanced (bounded)
  \* ---- SpecCache: one TtlCache<T>
  cache,        \* this.cache : key -> [data, expiresAt]
  ttlMs,        \* this.ttlMs
  lastOp,       \* the last method called, its argument, result and the size before
  written,      \* history: per key, the last set: when, over what, and whether read since
  \* ---- the client's module state (google.ts, cache.ts singletons)
  apiKey,       \* let apiKey: string | null
  detailsCache, \* the detailsCache singleton's map
  geocodeCache, \* the geocodeCache singleton's map
  searchCache,  \* the searchCache singleton's map
  \* ---- Spec: calls of the client's four cached operations
  lastCall,     \* the last call: function, cache key, request sent?, result, error
  stored,       \* history: per cache and key, the value a request last stored, and when
  \* ---- SpecBatch: one run of getPlaceDetailsBatch(placeIds, concurrencyLimit)
  placeIds,         \* the ids asked for, in order, duplicates allowed
  concurrencyLimit, \* the limit handed to pLimit
  tasks,            \* per position of placeIds: where its limited task stands
  results,          \* const results = new Map()
  batchPc,          \* "pending", "returned" or "rejected"
  requested,        \* per position: whether its task sent a remote request
  \* ---- SpecSearch: one run of searchTurfs(lat, lng, radiusKm, customKeyword, maxResults)
  customKeyword,  \* <<>> when the argument is undefined, else <<text>>
  maxResults,     \* the maxResults argument
  keywords,       \* const keywords
  seenPlaceIds,   \* const seenPlaceIds = new Set()
  allPlaces,      \* const allPlaces = []
  searchPc,       \* where the run stands: start, nearby, loop, text, exit, done, raised
  kwIndex,        \* the position in keywords of the for loop
  filteredPlaces, \* const filteredPlaces
  searchResult,   \* the list returned
  issued,         \* history: the textQuery of every textSearch call made, in order
  nearbyCalls,    \* history: how many times nearbySearch has been called
  firstSeen,      \* history: per place id, the first copy any pass returned
  discovery,      \* history: the place ids in the order the passes first returned them
  laterCopies,    \* history: copies returned after another copy of the same place
  lastPass,       \* history: how the last search call ended: none, ok or error
  anyPassOk,      \* history: whether some search call has succeeded
  \* ---- the specifications of the pure functions: one call each
  args,           \* the arguments of the call
  returned,       \* the value returned
  pc              \* "call" before the function runs, "done" after

\* JavaScript null, as returned by TtlCache.get.
Null == "null"

(***************************************************************************)
(* Bounds of the model.                                                    *)
(***************************************************************************)
MaxTicks == 3
MaxClientTicks == 1
MaxBatchTicks == 1
MaxIds == 3
MaxLimit == 2
MaxMaxResults == 2
MaxPlacesPerPass == 2
MaxParams == 2
MaxReviews == 4
MaxPhotos == 4
MaxTextLen == 300
MaxPlaces == 3
MaxDetailsLimit == 2

(***************************************************************************)
(* Program constants.                                                      *)
(***************************************************************************)
\* DEFAULT_CONFIG.cacheTtlMs = 10 * 60 * 1000
cacheTtlMs == 600000
\* DEFAULT_CONFIG.maxResults
defaultMaxResults == 30
\* Math.min(20, maxResults): the provider's page maximum
pageMax == 20
\* Math.min(options.radiusMeters, 50000)
radiusMax == 50000
\* truncateText(..., 240) in buildTurfResult
reviewTextMax == 240

(***************************************************************************)
(* TtlCache (cache.ts).  A Map<string, CacheEntry<T>> is a function whose  *)
(* domain is the set of keys present.                                      *)
(***************************************************************************)
EmptyMap == [k \in {} |-> Null]

\* Map.prototype.delete
MapDelete(m, key) == [k \in (DOMAIN m) \ {key} |-> m[k]]

\* Map.prototype.set
MapSet(m, key, entry) == [k \in (DOMAIN m) \cup {key} |-> IF k = key THEN entry ELSE m[k]]

\* An entry is expired when Date.now() > entry.expiresAt (strictly).
Expired(entry, t) == t > entry.expiresAt

\* Mutant: an expired entry is reported absent but left in the map.
getKeepsExpired(c, key, t) ==
  IF key \notin DOMAIN c \/ Expired(c[key], t)
    THEN [ret |-> Null, cache |-> c]
    ELSE [ret |-> c[key].data, cache |-> c]

\* Mutant: a read that finds the value renews the entry's lifetime.
getRefreshes(c, key, t) ==
  IF key \notin DOMAIN c
    THEN [ret |-> Null, cache |-> c]
    ELSE IF Expired(c[key], t)
           THEN [ret |-> Null, cache |-> MapDelete(c, key)]
           ELSE [ret |-> c[key].data,
                 cache |-> MapSet(c, key, [data |-> c[key].data, expiresAt |-> t + cacheTtlMs])]

\* TtlCache.get: the value returned and the map afterwards.
get(c, key, t) ==
  IF key \notin DOMAIN c
    THEN [ret |-> Null, cache |-> c]
    ELSE IF Expired(c[key], t)
           THEN [ret |-> Null, cache |-> MapDelete(c, key)]
           ELSE [ret |-> c[key].data, cache |-> c]

\* Mutant: set leaves an entry that has not expired as it is.
setKeepsLive(c, key, data, t, ttl) ==
  IF key \in DOMAIN c /\ ~Expired(c[key], t)
    THEN c
    ELSE MapSet(c, key, [data |-> data, expiresAt |-> t + ttl])

\* TtlCache.set: the map afterwards.
set(c, key, data, t, ttl) == MapSet(c, key, [data |-> data, expiresAt |-> t + ttl])

\* TtlCache.has: get(key) !== null, with get's eviction.
has(c, key, t) == [ret |-> get(c, key, t).ret # Null, cache |-> get(c, key, t).cache]

\* TtlCache.delete: whether the key was present, and the map afterwards.
delete(c, key) == [ret |-> key \in DOMAIN c, cache |-> MapDelete(c, key)]

\* TtlCache.clear
clear(c) == EmptyMap

\* Mutant: prune also removes the entries that expire at this very millisecond.
pruneAtExpiry(c, t) ==
  LET gone == {k \in DOMAIN c : t >= c[k].expiresAt}
  IN  [ret |-> Cardinality(gone), cache |-> [k \in (DOMAIN c) \ gone |-> c[k]]]

\* TtlCache.prune: the number of entries removed and the map afterwards.
prune(c, t) ==
  LET gone == {k \in DOMAIN c : Expired(c[k], t)}
  IN  [ret |-> Cardinality(gone), cache |-> [k \in (DOMAIN c) \ gone |-> c[k]]]

\* TtlCache.stats
stats(c, ttl) == [size |-> Cardinality(DOMAIN c), ttlMs |-> ttl]

(***************************************************************************)
(* TtlCache.generateKey.  A parameter object is the sequence of its        *)
(* <<name, value>> properties in insertion order; a JavaScript value is a  *)
(* tagged pair.  The key is the string name1=json1&name2=json2...          *)
(***************************************************************************)
Str(s) == <<"string", s>>
Num(n) == <<"number", ToString(n)>>
NumText(text) == <<"number", text>>
NaN == <<"number", "NaN">>
JsNull == <<"null", "null">>
Arr(json) == <<"array", json>>
Undefined == <<"undefined", "undefined">>

\* JSON.stringify inside a template literal: a string is quoted (the model's
\* strings hold no character that needs an escape), a finite number is its
\* digits, NaN and the infinities are null, null is null, an array is its
\* JSON text, and undefined prints as the word undefined.
stringify(v) ==
  CASE v[1] = "string" -> "\"" \o v[2] \o "\""
    [] v[1] = "number" ->
         IF v[2] \in {"NaN", "Infinity", "-Infinity"} THEN "null" ELSE v[2]
    [] v[1] = "array" -> v[2]
    [] v[1] = "null" -> "null"
    [] OTHER -> "undefined"

\* The property names the client uses, in the order Array.prototype.sort
\* gives them.
PropertyNames ==
  <<"address", "includedTypes", "lat", "lng", "maxResultCount", "placeId",
    "radiusMeters", "region", "textQuery", "type">>

\* params[key] for a property of the object.
Prop(params, name) == (CHOOSE i \in DOMAIN params : params[i][1] = name)

\* Array.prototype.join
RECURSIVE join(_, _)
join(segments, separator) ==
  IF segments = <<>> THEN ""
  ELSE IF Len(segments) = 1 THEN segments[1]
  ELSE segments[1] \o separator \o join(Tail(segments), separator)

\* params is the object's properties in insertion order, as name-value pairs.
generateKey(params) ==
  LET names == {params[i][1] : i \in DOMAIN params}
      Present(n) == n \in names
      sorted == SelectSeq(PropertyNames, Present)
  IN  join([i \in 1..Len(sorted) |->
              sorted[i] \o "=" \o stringify(params[Prop(params, sorted[i])][2])], "&")

(***************************************************************************)
(* SpecCache: one TtlCache instance driven through its public methods.     *)
(***************************************************************************)
CacheKeys == {"k1", "k2"}
CacheValues == {"v1", "v2"}

\* The constructor's ttlMs: the default, or a caller's own.
TtlChoices == {cacheTtlMs, 1}

\* The clock advances by one millisecond or by a whole TTL.
TickDeltas(ttl) == {1, ttl}

cacheVars == <<cache, ttlMs, lastOp, written>>
clockVars == <<now, ticks>>
clientVars == <<apiKey, detailsCache, geocodeCache, searchCache>>
callVars == <<lastCall, stored>>
batchVars == <<placeIds, concurrencyLimit, tasks, results, batchPc, requested>>
searchVars ==
  <<customKeyword, maxResults, keywords, seenPlaceIds, allPlaces, searchPc, kwIndex,
    filteredPlaces, searchResult, issued, nearbyCalls, firstSeen, discovery, laterCopies,
    lastPass, anyPassOk>>
pureVars == <<args, returned, pc>>
vars == <<clockVars, cacheVars, clientVars, callVars, batchVars, searchVars, pureVars>>

Op(op, key, ret, count) ==
  [op |-> op, key |-> key, ret |-> ret, count |-> count,
   sizeBefore |-> stats(cache, ttlMs).size]

\* The idle value of each group, for the specifications that do not use it.
CacheIdle ==
  /\ cache = EmptyMap /\ ttlMs = cacheTtlMs /\ lastOp = [op |-> "idle"]
  /\ written = EmptyMap
ClientIdle ==
  /\ apiKey = Null /\ detailsCache = EmptyMap
  /\ geocodeCache = EmptyMap /\ searchCache = EmptyMap
CallIdle == lastCall = [fn |-> "idle"] /\ stored = EmptyMap
BatchIdle ==
  /\ placeIds = <<>> /\ concurrencyLimit = 1 /\ tasks = <<>>
  /\ results = EmptyMap /\ batchPc = "idle" /\ requested = <<>>
SearchIdle ==
  /\ customKeyword = <<>> /\ maxResults = 0 /\ keywords = <<>>
  /\ seenPlaceIds = {} /\ allPlaces = <<>> /\ searchPc = "idle" /\ kwIndex = 0
  /\ filteredPlaces = <<>> /\ searchResult = <<>> /\ issued = <<>> /\ nearbyCalls = 0
  /\ firstSeen = EmptyMap /\ lastPass = "none" /\ discovery = <<>> /\ laterCopies = {}
  /\ anyPassOk = FALSE
PureIdle == args = <<>> /\ returned = <<>> /\ pc = "idle"
ClockInit == now = 0 /\ ticks = 0

\* What a step of SpecCache leaves alone.
CacheFrame == UNCHANGED <<clientVars, callVars, batchVars, searchVars, pureVars>>

\* History: the state of a key's entry as a caller could observe it.
entryState(c, key, t) ==
  IF key \notin DOMAIN c THEN "absent"
  ELSE IF Expired(c[key], t) THEN "expired" ELSE "live"

\* History: a set on key is recorded; a read that returned the value is noted.
noteWritten(w, key, c, t) ==
  MapSet(w, key, [at |-> t, over |-> entryState(c, key, t), read |-> FALSE])

noteRead(w, key, ret) ==
  IF key \in DOMAIN w /\ ret # Null
    THEN MapSet(w, key, [w[key] EXCEPT !.read = TRUE])
    ELSE w

Set(key, data) ==
  /\ cache' = set(cache, key, data, now, ttlMs)
  /\ lastOp' = Op("set", key, data, 0)
  /\ written' = noteWritten(written, key, cache, now)
  /\ UNCHANGED <<ttlMs, now, ticks>>
  /\ CacheFrame

Get(key) ==
  /\ cache' = get(cache, key, now).cache
  /\ lastOp' = Op("get", key, get(cache, key, now).ret, 0)
  /\ written' = noteRead(written, key, get(cache, key, now).ret)
  /\ UNCHANGED <<ttlMs, now, ticks>>
  /\ CacheFrame

Has(key) ==
  /\ cache' = has(cache, key, now).cache
  /\ lastOp' = Op("has", key, IF has(cache, key, now).ret THEN "true" ELSE "false", 0)
  /\ written' = noteRead(written, key, get(cache, key, now).ret)
  /\ UNCHANGED <<ttlMs, now, ticks>>
  /\ CacheFrame

Delete(key) ==
  /\ cache' = delete(cache, key).cache
  /\ lastOp' = Op("delete", key, IF delete(cache, key).ret THEN "true" ELSE "false", 0)
  /\ UNCHANGED <<ttlMs, now, ticks, written>>
  /\ CacheFrame

Clear ==
  /\ cache' = clear(cache)
  /\ lastOp' = Op("clear", "", "undefined", 0)
  /\ UNCHANGED <<ttlMs, now, ticks, written>>
  /\ CacheFrame

Prune ==
  /\ cache' = prune(cache, now).cache
  /\ lastOp' = Op("prune", "", "count", prune(cache, now).ret)
  /\ UNCHANGED <<ttlMs, now, ticks, written>>
  /\ CacheFrame

\* Time passes between two calls.
Tick ==
  /\ ticks < MaxTicks
  /\ \E d \in TickDeltas(ttlMs) : now' = now + d
  /\ ticks' = ticks + 1
  /\ lastOp' = Op("tick", "", "undefined", 0)
  /\ UNCHANGED <<cache, ttlMs, written>>
  /\ CacheFrame

InitCache ==
  /\ ClockInit
  /\ cache = EmptyMap
  /\ ttlMs \in TtlChoices
  /\ lastOp = [op |-> "new", key |-> "", ret |-> "undefined", count |-> 0, sizeBefore |-> 0]
  /\ written = EmptyMap
  /\ ClientIdle
  /\ CallIdle
  /\ PureIdle
  /\ BatchIdle
  /\ SearchIdle

NextCache ==
  \/ \E key \in CacheKeys, data \in CacheValues : Set(key, data)
  \/ \E key \in CacheKeys : Get(key)
  \/ \E key \in CacheKeys : Has(key)
  \/ \E key \in CacheKeys : Delete(key)
  \/ Clear
  \/ Prune
  \/ Tick

SpecCache == InitCache /\ [][NextCache]_vars

(***************************************************************************)
(* C10.  TtlCache.get(key) on an entry whose TTL has elapsed               *)
(* (now > expiresAt) returns null and removes that entry, so stats().size  *)
(* is one less afterwards; get on an unexpired entry returns its stored    *)
(* value and leaves the map as it was.                                     *)
(***************************************************************************)
C10_GetExpiry ==
  [][\A key \in DOMAIN cache :
       (lastOp'.op = "get" /\ lastOp'.key = key) =>
         IF now > cache[key].expiresAt
           THEN /\ lastOp'.ret = Null
                /\ key \notin DOMAIN cache'
                /\ stats(cache', ttlMs').size = stats(cache, ttlMs).size - 1
           ELSE /\ lastOp'.ret = cache[key].data
                /\ cache' = cache]_vars

\* A get has just found an expired entry: it returned null and the entry is gone.
C10_Witness ==
  /\ lastOp.op = "get"
  /\ lastOp.ret = Null
  /\ lastOp.key \notin DOMAIN cache
  /\ stats(cache, ttlMs).size = lastOp.sizeBefore - 1

(***************************************************************************)
(* C11.  Reads never extend an entry's lifetime: once a key was set at     *)
(* time t and not set again, every get at a time greater than t + ttl      *)
(* returns null, whatever get or has calls came in between; the expiresAt  *)
(* of an entry changes only through set on its key.                        *)
(***************************************************************************)
C11_ReadsDoNotRefresh ==
  [][/\ \A key \in DOMAIN written :
          (lastOp'.op = "get" /\ lastOp'.key = key /\ now > written[key].at + ttlMs)
            => lastOp'.ret = Null
     /\ \A key \in (DOMAIN cache) \cap (DOMAIN cache') :
          cache'[key].expiresAt # cache[key].expiresAt
            => (lastOp'.op = "set" /\ lastOp'.key = key)]_vars

\* An entry that was read while live has now outlived its TTL, and the get
\* that found it returned null and evicted it.
C11_Witness ==
  /\ lastOp.op = "get"
  /\ lastOp.ret = Null
  /\ lastOp.key \in DOMAIN written
  /\ written[lastOp.key].read
  /\ now > written[lastOp.key].at + ttlMs
  /\ stats(cache, ttlMs).size = lastOp.sizeBefore - 1

(***************************************************************************)
(* C12.  TtlCache.set(key, value) overwrites whatever entry the key had,   *)
(* expired or not, with the value and the expiry now + ttl; a get(key)     *)
(* that follows with no time elapsed returns exactly that value.           *)
(***************************************************************************)
C12_SetOverwrites ==
  [][/\ lastOp'.op = "set" =>
          /\ lastOp'.key \in DOMAIN cache'
          /\ cache'[lastOp'.key] = [data |-> lastOp'.ret, expiresAt |-> now + ttlMs]
          /\ \A key \in (DOMAIN cache) \ {lastOp'.key} :
                key \in DOMAIN cache' /\ cache'[key] = cache[key]
     /\ (lastOp.op = "set" /\ lastOp'.op = "get" /\ lastOp'.key = lastOp.key)
          => lastOp'.ret = lastOp.ret]_vars

\* A set replaced an expired entry, and the get at the same instant returned
\* the new value.
C12_Witness ==
  /\ lastOp.op = "get"
  /\ lastOp.key \in DOMAIN written
  /\ written[lastOp.key].at = now
  /\ written[lastOp.key].over = "expired"
  /\ written[lastOp.key].read
  /\ lastOp.key \in DOMAIN cache
  /\ lastOp.ret = cache[lastOp.key].data

(***************************************************************************)
(* C13.  TtlCache.prune() removes exactly the entries with                 *)
(* now > expiresAt, returns how many they were, and leaves every other     *)
(* entry as it was; an entry leaves the map only through prune, a get or   *)
(* has on its key, delete or clear.                                        *)
(***************************************************************************)
C13_ExpiredKeys == {key \in DOMAIN cache : now > cache[key].expiresAt}

C13_PruneExact ==
  [][/\ lastOp'.op = "prune" =>
          /\ DOMAIN cache' = (DOMAIN cache) \ C13_ExpiredKeys
          /\ \A key \in DOMAIN cache' : cache'[key] = cache[key]
          /\ lastOp'.count = Cardinality(C13_ExpiredKeys)
     /\ \A key \in (DOMAIN cache) \ (DOMAIN cache') :
          \/ lastOp'.op \in {"prune", "delete", "clear"}
          \/ lastOp'.op \in {"get", "has"} /\ lastOp'.key = key]_vars

\* A prune removed an expired entry and kept one that had not expired.
C13_Witness ==
  /\ lastOp.op = "prune"
  /\ lastOp.count >= 1
  /\ stats(cache, ttlMs).size >= 1
  /\ stats(cache, ttlMs).size = lastOp.sizeBefore - lastOp.count

(***************************************************************************)
(* getPlaceDetails (google.ts), in the two halves an await splits it into. *)
(***************************************************************************)
PlaceIdSet == {"p1", "p2"}

\* What the details endpoint can answer: a record (one of two contents), a
\* non-success HTTP status, or a transport/parse error.
DetailRecords == {"detailA", "detailB"}
FetchFailures == {"http_error", "transport_error", "parse_error"}
FetchOutcomes == DetailRecords \cup FetchFailures

\* Mutant: getApiKey rejects null only, and hands out the empty string.
getApiKeyThrowsOnNull(key) == key = Null

\* getApiKey(): if (!apiKey) throw new GoogleApiError(...).  null and the
\* empty string are falsy.
getApiKeyThrows(key) == key = Null \/ key = ""

\* isApiKeyConfigured(): return !!apiKey
isApiKeyConfigured(key) == ~(key = Null \/ key = "")

\* const cacheKey = TtlCache.generateKey({ type: 'details', placeId })
DetailsKey(placeId) ==
  generateKey(<<<<"type", Str("details")>>, <<"placeId", Str(placeId)>>>>)

\* Up to the first await: the cache lookup, then getApiKey() inside the try.
\* phase "hit": the cached record is returned; "nokey": getApiKey threw and the
\* catch returns null; "fetching": the request is in flight.
getPlaceDetailsBegin(placeId, c, key, t) ==
  LET looked == get(c, DetailsKey(placeId), t)
  IN  IF looked.ret # Null
        THEN [phase |-> "hit", value |-> looked.ret, cache |-> looked.cache]
        ELSE IF getApiKeyThrows(key)
               THEN [phase |-> "nokey", value |-> Null, cache |-> looked.cache]
               ELSE [phase |-> "fetching", value |-> Null, cache |-> looked.cache]

\* Mutant: the catch block lets a transport or parse error through.
getPlaceDetailsEndRethrows(placeId, outcome, c, t) ==
  IF outcome \in DetailRecords
    THEN [threw |-> FALSE, value |-> outcome,
          cache |-> set(c, DetailsKey(placeId), outcome, t, cacheTtlMs)]
    ELSE [threw |-> outcome # "http_error", value |-> Null, cache |-> c]

\* After the await: a record is cached and returned; !response.ok and a
\* thrown error both return null.  Nothing is rethrown.
getPlaceDetailsEnd(placeId, outcome, c, t) ==
  IF outcome \in DetailRecords
    THEN [threw |-> FALSE, value |-> outcome,
          cache |-> set(c, DetailsKey(placeId), outcome, t, cacheTtlMs)]
    ELSE [threw |-> FALSE, value |-> Null, cache |-> c]

(***************************************************************************)
(* getPlaceDetailsBatch (google.ts).  limit = pLimit(concurrencyLimit)     *)
(* queues the tasks in the order of placeIds and starts the oldest queued  *)
(* one whenever fewer than concurrencyLimit are running.                   *)
(***************************************************************************)
Running == {"hit", "nokey", "fetching"}

\* Mutant: a task that has resolved keeps its slot.
activeCountKept(ts) == Cardinality({i \in DOMAIN ts : ts[i].st \in Running \cup {"done"}})

\* p-limit's activeCount
activeCount(ts) == Cardinality({i \in DOMAIN ts : ts[i].st \in Running})

\* Mutant: the tasks are not wrapped in limit().
SlotAlwaysFree(ts, lim) == TRUE

\* p-limit starts a queued task only while activeCount < concurrency.
SlotFree(ts, lim) == activeCount(ts) < lim

\* Mutant: the function returns when the first task settles.
AnySettled(ts) == ts = <<>> \/ \E i \in DOMAIN ts : ts[i].st = "done"

\* await Promise.all(tasks): every task has resolved.
AllSettled(ts) == \A i \in DOMAIN ts : ts[i].st = "done"

BatchFrame ==
  UNCHANGED <<cacheVars, callVars, geocodeCache, searchCache, searchVars, pureVars>>

\* Mutant: a lookup that finds a fetch of the same id in flight joins it
\* instead of sending its own request.
StartTaskCoalesced(i) ==
  /\ batchPc \in {"pending", "rejected"}
  /\ tasks[i].st = "queued"
  /\ \A j \in 1..(i - 1) : tasks[j].st # "queued"
  /\ SlotFree(tasks, concurrencyLimit)
  /\ LET b == getPlaceDetailsBegin(placeIds[i], detailsCache, apiKey, now)
         joins == \E j \in DOMAIN tasks :
                    j # i /\ placeIds[j] = placeIds[i] /\ tasks[j].st = "fetching"
     IN  /\ tasks' = [tasks EXCEPT ![i] =
                        [st |-> IF joins /\ b.phase = "fetching" THEN "hit" ELSE b.phase,
                         value |-> b.value]]
         /\ detailsCache' = b.cache
         /\ requested' = [requested EXCEPT ![i] = (b.phase = "fetching" /\ ~joins)]
  /\ UNCHANGED <<apiKey, placeIds, concurrencyLimit, results, batchPc, clockVars>>
  /\ BatchFrame

\* limit() starts the oldest queued task: getPlaceDetails(placeId) runs to its
\* first await.
StartTask(i) ==
  /\ batchPc \in {"pending", "rejected"}
  /\ tasks[i].st = "queued"
  /\ \A j \in 1..(i - 1) : tasks[j].st # "queued"
  /\ SlotFree(tasks, concurrencyLimit)
  /\ LET b == getPlaceDetailsBegin(placeIds[i], detailsCache, apiKey, now)
     IN  /\ tasks' = [tasks EXCEPT ![i] = [st |-> b.phase, value |-> b.value]]
         /\ detailsCache' = b.cache
         /\ requested' = [requested EXCEPT ![i] = (b.phase = "fetching")]
  /\ UNCHANGED <<apiKey, placeIds, concurrencyLimit, results, batchPc, clockVars>>
  /\ BatchFrame

\* getPlaceDetails resolves and the task runs results.set(placeId, details).
\* Were getPlaceDetails to throw, the task would reject and Promise.all with it.
ResolveTask(i) ==
  /\ batchPc \in {"pending", "rejected"}
  /\ tasks[i].st \in Running
  /\ \E outcome \in FetchOutcomes :
       LET e == IF tasks[i].st = "fetching"
                  THEN getPlaceDetailsEnd(placeIds[i], outcome, detailsCache, now)
                  ELSE [threw |-> FALSE, value |-> tasks[i].value, cache |-> detailsCache]
       IN  /\ detailsCache' = e.cache
           /\ tasks' = [tasks EXCEPT ![i] = [st |-> "done", value |-> e.value]]
           /\ IF e.threw
                THEN batchPc' = "rejected" /\ results' = results
                ELSE batchPc' = batchPc /\ results' = MapSet(results, placeIds[i], e.value)
  /\ UNCHANGED <<apiKey, placeIds, concurrencyLimit, requested, clockVars>>
  /\ BatchFrame

\* return results
ReturnBatch ==
  /\ batchPc = "pending"
  /\ AllSettled(tasks)
  /\ batchPc' = "returned"
  /\ UNCHANGED <<apiKey, detailsCache, placeIds, concurrencyLimit, tasks, results,
                 requested, clockVars>>
  /\ BatchFrame

\* Time passes while requests are in flight.
TickBatch ==
  /\ batchPc = "pending"
  /\ ticks < MaxBatchTicks
  /\ \E d \in TickDeltas(cacheTtlMs) : now' = now + d
  /\ ticks' = ticks + 1
  /\ UNCHANGED <<clientVars, batchVars>>
  /\ BatchFrame

SeqsUpTo(S, n) == UNION {[1..k -> S] : k \in 0..n}

InitBatch ==
  /\ ClockInit
  /\ CacheIdle
  /\ CallIdle
  /\ PureIdle
  /\ geocodeCache = EmptyMap
  /\ searchCache = EmptyMap
  /\ apiKey \in {Null, "key"}
  /\ detailsCache \in
       {EmptyMap,
        set(EmptyMap, DetailsKey("p1"), "detailA", -1, cacheTtlMs)}
  /\ placeIds \in SeqsUpTo(PlaceIdSet, MaxIds)
  /\ concurrencyLimit \in 1..MaxLimit
  /\ tasks = [i \in DOMAIN placeIds |-> [st |-> "queued", value |-> Null]]
  /\ results = EmptyMap
  /\ batchPc = "pending"
  /\ requested = [i \in DOMAIN placeIds |-> FALSE]
  /\ SearchIdle

NextBatch ==
  \/ \E i \in DOMAIN tasks : StartTask(i)
  \/ \E i \in DOMAIN tasks : ResolveTask(i)
  \/ ReturnBatch
  \/ TickBatch

SpecBatch == InitBatch /\ [][NextBatch]_vars

\* The same run under the scheduling the runtime gives: p-limit starts a
\* queued task once a slot is free, every getPlaceDetails call that has
\* started resolves, and the function resumes once Promise.all has settled.
\* The clock stands still: the run takes the same steps at any time.
NextBatchLive ==
  \/ \E i \in DOMAIN tasks : StartTask(i)
  \/ \E i \in DOMAIN tasks : ResolveTask(i)
  \/ ReturnBatch

FairBatch == WF_vars(NextBatchLive)

SpecBatchLive == InitBatch /\ [][NextBatchLive]_vars /\ FairBatch

(***************************************************************************)
(* C1.  During a run of getPlaceDetailsBatch the number of getPlaceDetails *)
(* calls that have started and not yet resolved never exceeds              *)
(* concurrencyLimit, whatever the ids and the order of completion.         *)
(***************************************************************************)
C1_InFlightBounded ==
  Cardinality({i \in DOMAIN tasks : tasks[i].st \in Running}) <= concurrencyLimit

\* The limit is reached while another id still waits in the queue.
C1_Witness ==
  /\ Cardinality({i \in DOMAIN tasks : tasks[i].st \in Running}) = concurrencyLimit
  /\ \E i \in DOMAIN tasks : tasks[i].st = "queued"
  /\ \E i \in DOMAIN tasks : tasks[i].st = "fetching"

(***************************************************************************)
(* C2.  getPlaceDetailsBatch returns only after every requested id has     *)
(* been resolved; the returned map has an entry (a record or null) for     *)
(* every requested id, also when fetches fail; a failed fetch never makes  *)
(* it raise.                                                               *)
(***************************************************************************)
C2_CompleteMap ==
  /\ batchPc # "rejected"
  /\ batchPc = "returned" =>
       /\ \A i \in DOMAIN placeIds : tasks[i].st = "done"
       /\ \A i \in DOMAIN placeIds : placeIds[i] \in DOMAIN results
       /\ \A id \in DOMAIN results : results[id] \in DetailRecords \cup {Null}

\* The batch has returned although a request failed: that id maps to null.
C2_Witness ==
  /\ batchPc = "returned"
  /\ \E i \in DOMAIN placeIds : requested[i] /\ results[placeIds[i]] = Null
  /\ \E i \in DOMAIN placeIds : results[placeIds[i]] # Null

(***************************************************************************)
(* C24.  The map getPlaceDetailsBatch returns depends only on the list of  *)
(* ids and on the outcome of each fetch, not on the order in which the     *)
(* fetches complete.  When every listed id sent its own request and the    *)
(* limit lets them all be in flight together, the fetches can complete in  *)
(* list order, and then the last occurrence of an id sets its entry: any   *)
(* other completion order must give that same map.                         *)
(***************************************************************************)
C24_LastOccurrence(i) == \A j \in (i + 1)..Len(placeIds) : placeIds[j] # placeIds[i]

C24_OrderIndependent ==
  (/\ batchPc = "returned"
   /\ Len(placeIds) <= concurrencyLimit
   /\ \A i \in DOMAIN placeIds : requested[i])
  => \A i \in DOMAIN placeIds :
       C24_LastOccurrence(i) => results[placeIds[i]] = tasks[i].value

\* For a list without a repeated id the entry of each id is the value its
\* own task resolved with, in every completion order.
C24_DistinctIds ==
  (batchPc = "returned" /\ \A i, j \in DOMAIN placeIds : placeIds[i] = placeIds[j] => i = j)
  => \A i \in DOMAIN placeIds : results[placeIds[i]] = tasks[i].value

(***************************************************************************)
(* C28.  Lookups of the same key are not coalesced across an await.  A     *)
(* task of getPlaceDetailsBatch that starts sends its own request exactly  *)
(* when an API key is set and its cache lookup misses, whatever fetches    *)
(* are in flight; so an id given twice with a cold cache and a limit of 2  *)
(* or more can have two fetches in flight at once.  The map returned still *)
(* has exactly one entry per distinct id, and the details cache at most    *)
(* one entry per id, under the key of that id.                             *)
(***************************************************************************)
C28_Ids == {placeIds[i] : i \in DOMAIN placeIds}

C28_NotCoalesced ==
  [][/\ \A i \in DOMAIN tasks :
          (tasks[i].st = "queued" /\ tasks'[i].st # "queued") =>
            (requested'[i] <=>
               (/\ isApiKeyConfigured(apiKey)
                /\ get(detailsCache, DetailsKey(placeIds[i]), now).ret = Null))
     /\ batchPc' = "returned" => DOMAIN results' = C28_Ids
     /\ DOMAIN detailsCache' \subseteq {DetailsKey(id) : id \in C28_Ids \cup {"p1"}}
     /\ Cardinality(DOMAIN detailsCache') <= Cardinality(C28_Ids \cup {"p1"})]_vars

\* Two fetches of one id are in flight together with nothing cached.
C28_Witness ==
  /\ concurrencyLimit >= 2
  /\ detailsCache = EmptyMap
  /\ \E i, j \in DOMAIN placeIds :
       /\ i < j
       /\ placeIds[i] = placeIds[j]
       /\ tasks[i].st = "fetching" /\ requested[i]
       /\ tasks[j].st = "fetching" /\ requested[j]

(***************************************************************************)
(* C26.  Every getPlaceDetailsBatch call eventually returns provided each  *)
(* started detail fetch eventually resolves: no id stays queued forever,   *)
(* for every concurrencyLimit >= 1 and every number of ids, zero included. *)
(***************************************************************************)
C26_BatchReturns == <>(batchPc = "returned")

\* More ids than slots, each sending its own request: some id had to wait
\* for a slot, and the batch has returned with an entry for every id.
C26_Witness ==
  /\ batchPc = "returned"
  /\ Len(placeIds) > concurrencyLimit
  /\ \A i \in DOMAIN placeIds : requested[i]
  /\ \A i \in DOMAIN placeIds : placeIds[i] \in DOMAIN results

\* With no id the batch returns the empty map.
C26_EmptyList == (batchPc = "returned" /\ placeIds = <<>>) => results = EmptyMap

(***************************************************************************)
(* Text.  A string is the sequence of its characters.                      *)
(***************************************************************************)
UpperCase ==
  <<"A", "B", "C", "D", "E", "F", "G", "H", "I", "J", "K", "L", "M",
    "N", "O", "P", "Q", "R", "S", "T", "U", "V", "W", "X", "Y", "Z">>
LowerCase ==
  <<"a", "b", "c", "d", "e", "f", "g", "h", "i", "j", "k", "l", "m",
    "n", "o", "p", "q", "r", "s", "t", "u", "v", "w", "x", "y", "z">>

\* String.prototype.toLowerCase
toLowerCase(str) ==
  [i \in 1..Len(str) |->
     IF \E j \in 1..Len(UpperCase) : UpperCase[j] = str[i]
       THEN LowerCase[CHOOSE j \in 1..Len(UpperCase) : UpperCase[j] = str[i]]
       ELSE str[i]]

\* String.prototype.includes
includes(str, part) ==
  \E i \in 0..(Len(str) - Len(part)) : SubSeq(str, i + 1, i + Len(part)) = part

\* Array.prototype.includes
arrayIncludes(arr, x) == \E i \in 1..Len(arr) : arr[i] = x

(***************************************************************************)
(* filterTurfResults (google.ts).                                          *)
(***************************************************************************)
EXCLUDE_KEYWORDS ==
  <<<<"b", "o", "w", "l", "i", "n", "g">>,
    <<"b", "o", "w", "l">>,
    <<"a", "r", "c", "a", "d", "e">>,
    <<"g", "a", "m", "i", "n", "g", " ", "z", "o", "n", "e">>,
    <<"g", "a", "m", "e", " ", "z", "o", "n", "e">>,
    <<"v", "i", "r", "t", "u", "a", "l", " ", "r", "e", "a", "l", "i", "t", "y">>,
    <<"v", "r", " ", "a", "r", "e", "n", "a">>,
    <<"l", "a", "s", "e", "r", " ", "t", "a", "g">>,
    <<"e", "s", "c", "a", "p", "e", " ", "r", "o", "o", "m">>,
    <<"t", "r", "a", "m", "p", "o", "l", "i", "n", "e">>,
    <<"g", "o", " ", "k", "a", "r", "t">>,
    <<"k", "a", "r", "t", "i", "n", "g">>,
    <<"b", "i", "l", "l", "i", "a", "r", "d">>,
    <<"p", "o", "o", "l", " ", "t", "a", "b", "l", "e">>,
    <<"s", "n", "o", "o", "k", "e", "r">>,
    <<"p", "a", "i", "n", "t", "b", "a", "l", "l">>,
    <<"s", "h", "o", "o", "t", "i", "n", "g", " ", "r", "a", "n", "g", "e">>,
    <<"i", "c", "e", " ", "s", "k", "a", "t", "i", "n", "g">>,
    <<"r", "o", "l", "l", "e", "r", " ", "s", "k", "a", "t", "i", "n", "g">>,
    <<"s", "p", "a">>,
    <<"s", "a", "l", "o", "n">>,
    <<"r", "e", "s", "t", "a", "u", "r", "a", "n", "t">>,
    <<"c", "a", "f", "e">>,
    <<"b", "a", "r">>,
    <<"p", "u", "b">>,
    <<"l", "o", "u", "n", "g", "e">>>>

excludeTypes ==
  <<"bowling_alley", "amusement_center", "movie_theater", "night_club",
    "casino", "bar", "restaurant", "cafe">>

\* (place.displayName?.text || '')
displayText(place) ==
  IF "displayName" \in DOMAIN place THEN place.displayName.text ELSE <<>>

\* place.types || []
typesOf(place) == IF "types" \in DOMAIN place THEN place.types ELSE <<>>

\* Mutant: the name is compared without lower-casing it.
keepsCaseSensitive(place) ==
  /\ ~ \E k \in 1..Len(EXCLUDE_KEYWORDS) : includes(displayText(place), EXCLUDE_KEYWORDS[k])
  /\ ~ \E k \in 1..Len(excludeTypes) : arrayIncludes(typesOf(place), excludeTypes[k])

\* The filter callback: false as soon as a keyword or a type matches.
keeps(place) ==
  LET name == toLowerCase(displayText(place))
      types == typesOf(place)
  IN  /\ ~ \E k \in 1..Len(EXCLUDE_KEYWORDS) : includes(name, EXCLUDE_KEYWORDS[k])
      /\ ~ \E k \in 1..Len(excludeTypes) : arrayIncludes(types, excludeTypes[k])

filterTurfResults(places) == SelectSeq(places, keeps)

(***************************************************************************)
(* searchTurfs (google.ts).                                                *)
(***************************************************************************)
DEFAULT_TURF_KEYWORDS ==
  <<"turf", "football turf", "box cricket", "turf ground", "sports turf",
    "cricket ground", "football ground", "futsal", "five a side football",
    "seven a side football">>

\* The customKeyword argument: undefined, the empty string, a default keyword,
\* a keyword of the caller's own.
CustomKeywords == {<<>>, <<"">>, <<"futsal">>, <<"pickleball">>}

\* The places the provider knows.  PlaceA and PlaceA2 are two copies of the
\* same place with different fields; PlaceE has neither a name nor types.
PlaceA ==
  [id |-> "p1", displayName |-> [text |-> <<"G", "r", "e", "e", "n", " ", "T", "u", "r", "f">>], types |-> <<"sports_complex">>]
PlaceA2 ==
  [id |-> "p1", displayName |-> [text |-> <<"G", "r", "e", "e", "n", " ", "T", "u", "r", "f", " ", "C", "a", "f", "e">>], types |-> <<"sports_complex", "cafe">>]
PlaceC ==
  [id |-> "p3", displayName |-> [text |-> <<"K", "i", "c", "k", " ", "O", "f", "f">>], types |-> <<"stadium", "restaurant">>]
PlaceD ==
  [id |-> "p4", displayName |-> [text |-> <<"B", "A", "R", "C", "A", " ", "F", "u", "t", "s", "a", "l">>]]
PlaceE ==
  [id |-> "p5"]
PlaceSet == {PlaceA, PlaceA2, PlaceC, PlaceD, PlaceE}

Min(a, b) == IF a < b THEN a ELSE b

\* maxResultCount: Math.min(20, maxResults), as searchTurfs passes it
optionsMaxResultCount(max) == Min(pageMax, max)

\* requestBody.maxResultCount: options.maxResultCount || DEFAULT_CONFIG.maxResults
bodyMaxResultCount(count) == IF count = 0 THEN defaultMaxResults ELSE count

\* What a search call can return: a list of at most maxResultCount places.
Responses(max) ==
  SeqsUpTo(PlaceSet,
           Min(MaxPlacesPerPass, bodyMaxResultCount(optionsMaxResultCount(max))))

\* Mutant: the custom keyword is put in front of the whole default list.
keywordsUnfiltered(custom) ==
  IF custom # <<>> /\ custom[1] # ""
    THEN <<custom[1]>> \o DEFAULT_TURF_KEYWORDS
    ELSE DEFAULT_TURF_KEYWORDS

\* const keywords = customKeyword ? [customKeyword, ...DEFAULT.filter(k => k !== customKeyword)] : DEFAULT
buildKeywords(custom) ==
  IF custom # <<>> /\ custom[1] # ""
    THEN LET other(k) == k # custom[1]
         IN  <<custom[1]>> \o SelectSeq(DEFAULT_TURF_KEYWORDS, other)
    ELSE DEFAULT_TURF_KEYWORDS

\* Mutant: a place seen again replaces the copy kept.
RECURSIVE addKeepsLatest(_, _, _)
addKeepsLatest(seen, all, places) ==
  IF places = <<>>
    THEN [seen |-> seen, all |-> all]
    ELSE LET place == Head(places)
         IN  IF place.id \in seen
               THEN addKeepsLatest(seen,
                      [i \in 1..Len(all) |-> IF all[i].id = place.id THEN place ELSE all[i]],
                      Tail(places))
               ELSE addKeepsLatest(seen \cup {place.id}, Append(all, place), Tail(places))

\* for (const place of places) if (!seenPlaceIds.has(place.id)) { add; push }
RECURSIVE addUnique(_, _, _)
addUnique(seen, all, places) ==
  IF places = <<>>
    THEN [seen |-> seen, all |-> all]
    ELSE LET place == Head(places)
         IN  IF place.id \in seen
               THEN addUnique(seen, all, Tail(places))
               ELSE addUnique(seen \cup {place.id}, Append(all, place), Tail(places))

\* Mutant: the early-stop test counts the places that survive the filter.
enoughAfterFilter(all, max) == Len(filterTurfResults(all)) >= max

\* if (allPlaces.length >= maxResults) break
enough(all, max) == Len(all) >= max

\* Mutant: a failed search is not caught.
rethrowSearchError(resume) == "raised"

\* catch (error) { console.warn(...) }: the run goes on where the try ends.
catchSearchError(resume) == resume

\* Mutant: the filtered list is returned whole.
sliceNone(arr, end) == arr

\* arr.slice(0, end): a negative end counts from the end of the array.
slice(arr, end) ==
  LET last == IF end < 0
                THEN (IF Len(arr) + end < 0 THEN 0 ELSE Len(arr) + end)
                ELSE Min(end, Len(arr))
  IN  SubSeq(arr, 1, last)

\* History: the first copy of each place id, over the passes so far.
noteFirstSeen(fs, places) ==
  LET ids == {places[i].id : i \in DOMAIN places}
  IN  [id \in (DOMAIN fs) \cup ids |->
         IF id \in DOMAIN fs
           THEN fs[id]
           ELSE places[CHOOSE i \in DOMAIN places :
                         /\ places[i].id = id
                         /\ \A j \in 1..(i - 1) : places[j].id # id]]

\* History: the ids of places, from position i on, not returned before, each
\* at its first position, appended to the order so far.
RECURSIVE noteDiscovery(_, _, _)
noteDiscovery(order, places, i) ==
  IF i > Len(places)
    THEN order
    ELSE IF \E j \in 1..Len(order) : order[j] = places[i].id
           THEN noteDiscovery(order, places, i + 1)
           ELSE noteDiscovery(Append(order, places[i].id), places, i + 1)

SearchFrame ==
  UNCHANGED <<clockVars, cacheVars, clientVars, callVars, batchVars, pureVars>>

\* The keyword list is built and nearbySearch is called.
CallNearby ==
  /\ searchPc = "start"
  /\ keywords' = buildKeywords(customKeyword)
  /\ searchPc' = "nearby"
  /\ nearbyCalls' = nearbyCalls + 1
  /\ UNCHANGED <<customKeyword, maxResults, seenPlaceIds, allPlaces, kwIndex,
                 filteredPlaces, searchResult, issued, firstSeen, discovery, laterCopies, lastPass, anyPassOk>>
  /\ SearchFrame

\* A search call returned places: the unseen ones are appended.
Merge(places) ==
  LET m == addUnique(seenPlaceIds, allPlaces, places)
  IN  /\ seenPlaceIds' = m.seen
      /\ allPlaces' = m.all
      /\ firstSeen' = noteFirstSeen(firstSeen, places)
      /\ discovery' = noteDiscovery(discovery, places, 1)
      /\ laterCopies' = laterCopies \cup
           {places[i] : i \in {j \in DOMAIN places :
              places[j].id \in DOMAIN firstSeen /\ places[j] # firstSeen[places[j].id]}}
      /\ lastPass' = "ok"
      /\ anyPassOk' = TRUE

\* nearbySearch returned a list.  The search cache is empty throughout the
\* run, so a list comes from a request, which getApiKey() lets through only
\* with a key set.
NearbyReturns ==
  /\ searchPc = "nearby"
  /\ ~getApiKeyThrows(apiKey)
  /\ \E places \in Responses(maxResults) : Merge(places)
  /\ searchPc' = "loop"
  /\ kwIndex' = 1
  /\ UNCHANGED <<customKeyword, maxResults, keywords, filteredPlaces, searchResult, issued, nearbyCalls>>
  /\ SearchFrame

NearbyThrows ==
  /\ searchPc = "nearby"
  /\ searchPc' = catchSearchError("loop")
  /\ kwIndex' = 1
  /\ lastPass' = "error"
  /\ UNCHANGED <<customKeyword, maxResults, keywords, seenPlaceIds, allPlaces,
                 filteredPlaces, searchResult, issued, nearbyCalls,
                 firstSeen, discovery, laterCopies, anyPassOk>>
  /\ SearchFrame

\* Mutant: the keyword searches are started without awaiting the call before.
CallTextEarly ==
  /\ searchPc \in {"nearby", "loop", "text"}
  /\ Len(issued) < Len(keywords)
  /\ issued' = Append(issued, keywords[Len(issued) + 1])
  /\ searchPc' = "text"
  /\ kwIndex' = Len(issued) + 1
  /\ UNCHANGED <<customKeyword, maxResults, keywords, seenPlaceIds, allPlaces,
                 filteredPlaces, searchResult, nearbyCalls, firstSeen, discovery, laterCopies,
                 lastPass, anyPassOk>>
  /\ SearchFrame

\* The for loop takes the next keyword and calls textSearch.
CallText ==
  /\ searchPc = "loop"
  /\ kwIndex <= Len(keywords)
  /\ issued' = Append(issued, keywords[kwIndex])
  /\ searchPc' = "text"
  /\ UNCHANGED <<customKeyword, maxResults, keywords, seenPlaceIds, allPlaces, kwIndex,
                 filteredPlaces, searchResult, nearbyCalls, firstSeen, discovery, laterCopies,
                 lastPass, anyPassOk>>
  /\ SearchFrame

TextReturns ==
  /\ searchPc = "text"
  /\ ~getApiKeyThrows(apiKey)
  /\ \E places \in Responses(maxResults) : Merge(places)
  /\ IF enough(allPlaces', maxResults)
       THEN searchPc' = "exit" /\ kwIndex' = kwIndex
       ELSE searchPc' = "loop" /\ kwIndex' = kwIndex + 1
  /\ UNCHANGED <<customKeyword, maxResults, keywords, filteredPlaces, searchResult, issued, nearbyCalls>>
  /\ SearchFrame

\* Mutant: a failed keyword search is tried again.
TextThrowsRetries ==
  /\ searchPc = "text"
  /\ searchPc' = catchSearchError("loop")
  /\ kwIndex' = kwIndex
  /\ lastPass' = "error"
  /\ UNCHANGED <<customKeyword, maxResults, keywords, seenPlaceIds, allPlaces,
                 filteredPlaces, searchResult, issued, nearbyCalls,
                 firstSeen, discovery, laterCopies, anyPassOk>>
  /\ SearchFrame

\* catch (error) { console.warn(...) }: the for loop goes on with the next keyword.
TextThrows ==
  /\ searchPc = "text"
  /\ searchPc' = catchSearchError("loop")
  /\ kwIndex' = kwIndex + 1
  /\ lastPass' = "error"
  /\ UNCHANGED <<customKeyword, maxResults, keywords, seenPlaceIds, allPlaces,
                 filteredPlaces, searchResult, issued, nearbyCalls,
                 firstSeen, discovery, laterCopies, anyPassOk>>
  /\ SearchFrame

\* After the loop: filter, truncate, return.
FinishSearch ==
  /\ \/ searchPc = "exit"
     \/ searchPc = "loop" /\ kwIndex > Len(keywords)
  /\ filteredPlaces' = filterTurfResults(allPlaces)
  /\ searchResult' = slice(filteredPlaces', maxResults)
  /\ searchPc' = "done"
  /\ UNCHANGED <<customKeyword, maxResults, keywords, seenPlaceIds, allPlaces, kwIndex,
                 issued, nearbyCalls, firstSeen, discovery, laterCopies, lastPass, anyPassOk>>
  /\ SearchFrame

InitSearch ==
  /\ ClockInit
  /\ CacheIdle
  /\ apiKey \in {Null, "key"}
  /\ detailsCache = EmptyMap
  /\ geocodeCache = EmptyMap
  /\ searchCache = EmptyMap
  /\ CallIdle
  /\ PureIdle
  /\ BatchIdle
  /\ customKeyword \in CustomKeywords
  /\ maxResults \in 0..MaxMaxResults
  /\ keywords = <<>>
  /\ seenPlaceIds = {}
  /\ allPlaces = <<>>
  /\ searchPc = "start"
  /\ kwIndex = 0
  /\ filteredPlaces = <<>>
  /\ searchResult = <<>>
  /\ issued = <<>>
  /\ nearbyCalls = 0
  /\ firstSeen = EmptyMap
  /\ lastPass = "none" /\ discovery = <<>> /\ laterCopies = {}
  /\ anyPassOk = FALSE

NextSearch ==
  \/ CallNearby
  \/ NearbyReturns
  \/ NearbyThrows
  \/ CallText
  \/ TextReturns
  \/ TextThrows
  \/ FinishSearch

SpecSearch == InitSearch /\ [][NextSearch]_vars

(***************************************************************************)
(* Helpers of the claims about searchTurfs.                                *)
(***************************************************************************)
Elements(list) == {list[i] : i \in DOMAIN list}
NoRepeats(list) == \A i, j \in DOMAIN list : list[i] = list[j] => i = j
SearchRunning == searchPc \in {"nearby", "loop", "text", "exit"}

(***************************************************************************)
(* C3.  Once the accumulated number of unique places has reached           *)
(* maxResults, no further keyword text search is issued: a step taken      *)
(* after the count, which starts at 0, has risen to maxResults or more     *)
(* issues none.                                                            *)
(***************************************************************************)
C3_Reached == 0 < maxResults /\ Len(allPlaces) >= maxResults

C3_NoSearchOnceEnough ==
  [][(SearchRunning /\ C3_Reached) => issued' = issued]_vars

(***************************************************************************)
(* C4.  The list searchTurfs returns (and the list it accumulates) holds   *)
(* each place id at most once, and the record kept for an id is the copy   *)
(* of the first pass, in issue order, that returned it.                    *)
(***************************************************************************)
C4_FirstCopyKept ==
  /\ NoRepeats([i \in DOMAIN allPlaces |-> allPlaces[i].id])
  /\ NoRepeats([i \in DOMAIN searchResult |-> searchResult[i].id])
  /\ \A place \in Elements(allPlaces) \cup Elements(searchResult) :
       /\ place.id \in DOMAIN firstSeen
       /\ place = firstSeen[place.id]

\* Place p1 was returned twice with different fields; the first copy is in the result.
C4_Witness ==
  /\ searchPc = "done"
  /\ PlaceA \in Elements(searchResult)
  /\ PlaceA2 \in laterCopies

(***************************************************************************)
(* C5.  No place returned has a display name that, lower-cased, contains   *)
(* an exclusion keyword, nor a type in the exclusion type list; a place    *)
(* matching either check is removed by the filter and a place matching     *)
(* neither is kept by it.                                                  *)
(***************************************************************************)
C5_Lower(ch) ==
  IF \E j \in DOMAIN UpperCase : UpperCase[j] = ch
    THEN LowerCase[CHOOSE j \in DOMAIN UpperCase : UpperCase[j] = ch]
    ELSE ch

C5_NameHit(place) ==
  LET name == IF "displayName" \in DOMAIN place THEN place.displayName.text ELSE <<>>
  IN  \E k \in DOMAIN EXCLUDE_KEYWORDS :
        \E at \in 1..Len(name) :
          /\ at + Len(EXCLUDE_KEYWORDS[k]) - 1 <= Len(name)
          /\ \A o \in 1..Len(EXCLUDE_KEYWORDS[k]) :
               C5_Lower(name[at + o - 1]) = EXCLUDE_KEYWORDS[k][o]

C5_TypeHit(place) ==
  /\ "types" \in DOMAIN place
  /\ Elements(place.types) \cap Elements(excludeTypes) # {}

\* The places of the provider that each check matches.
C5_NameHits == {place \in PlaceSet : C5_NameHit(place)}
C5_TypeHits == {place \in PlaceSet : C5_TypeHit(place)}

C5_Exclusion ==
  searchPc = "done" =>
    /\ \A place \in Elements(searchResult) :
         place \notin C5_NameHits /\ place \notin C5_TypeHits
    /\ \A place \in Elements(allPlaces) :
         place \in Elements(filteredPlaces) <=>
           (place \notin C5_NameHits /\ place \notin C5_TypeHits)

\* A name-only match, a type-only match and a clean place were accumulated;
\* only the clean one is returned.
C5_Witness ==
  /\ searchPc = "done"
  /\ {PlaceD, PlaceC, PlaceE} \subseteq Elements(allPlaces)
  /\ Elements(filteredPlaces) = {PlaceE}
  /\ Elements(searchResult) = {PlaceE}

(***************************************************************************)
(* C6.  The list returned has at most maxResults places and is the prefix  *)
(* of the filtered, deduplicated places in discovery order (nearby seed    *)
(* first, then the keyword passes in issue order, each in provider order). *)
(***************************************************************************)
C6_Kept(place) == place \notin C5_NameHits /\ place \notin C5_TypeHits

C6_Reference == SelectSeq([i \in DOMAIN discovery |-> firstSeen[discovery[i]]], C6_Kept)

RECURSIVE C7_Without(_, _)
C7_Without(list, text) ==
  IF list = <<>> THEN <<>>
  ELSE IF Head(list) = text THEN C7_Without(Tail(list), text)
  ELSE <<Head(list)>> \o C7_Without(Tail(list), text)

C7_KeywordList ==
  searchPc \notin {"idle", "start"} =>
    /\ (customKeyword \in {<<>>, <<"">>}) => keywords = DEFAULT_TURF_KEYWORDS
    /\ (customKeyword \notin {<<>>, <<"">>}) =>
         /\ Head(keywords) = customKeyword[1]
         /\ Tail(keywords) = C7_Without(DEFAULT_TURF_KEYWORDS, customKeyword[1])
    /\ NoRepeats(keywords)
    /\ NoRepeats(issued)
    /\ \A i \in DOMAIN issued : issued[i] = keywords[i]

\* A run with a custom keyword of the default list searched every keyword once.
C7_Witness ==
  /\ searchPc = "done"
  /\ customKeyword = <<"futsal">>
  /\ Len(keywords) = Len(DEFAULT_TURF_KEYWORDS)
  /\ Len(issued) = Len(keywords)

(***************************************************************************)
(* C8.  A failed nearby or text search never makes searchTurfs raise: the  *)
(* failed pass adds no place and drops none, the loop moves on to the next *)
(* keyword, and when every pass fails every keyword was tried and the      *)
(* result is the empty list.                                               *)
(***************************************************************************)
C8_FailuresAreNotFatal ==
  /\ [](searchPc # "raised")
  /\ []((searchPc = "done" /\ ~anyPassOk) =>
          (searchResult = <<>> /\ Len(issued) = Len(keywords)))
  /\ [][(searchPc \in {"nearby", "text"} /\ searchPc' # searchPc /\ lastPass' = "error") =>
          /\ allPlaces' = allPlaces
          /\ seenPlaceIds' = seenPlaceIds
          /\ searchPc' = "loop"
          /\ kwIndex' = IF searchPc = "nearby" THEN 1 ELSE kwIndex + 1]_vars

\* The last keyword search failed and the run still returned the places of
\* the earlier passes.
C8_Witness ==
  /\ searchPc = "done"
  /\ lastPass = "error"
  /\ Len(issued) = Len(keywords)
  /\ searchResult # <<>>

(***************************************************************************)
(* C21.  No remote call is retried.  Within one run of searchTurfs the     *)
(* nearby search is attempted exactly once and each keyword at most once,  *)
(* whether the attempt succeeds or fails: nearbySearch has been called     *)
(* once as soon as the run has left its start, every textQuery issued is a *)
(* keyword of the list, and none is issued twice.                          *)
(***************************************************************************)
C21_NoRetry ==
  /\ nearbyCalls = (IF searchPc = "start" THEN 0 ELSE 1)
  /\ NoRepeats(issued)
  /\ Elements(issued) \subseteq Elements(keywords)
  /\ Len(issued) <= Len(keywords)

\* Every search call of the run failed: the nearby search and each keyword
\* of the list were tried once, and the run ended.
C21_Witness ==
  /\ searchPc = "done"
  /\ ~anyPassOk
  /\ nearbyCalls = 1
  /\ Len(issued) = Len(keywords)
  /\ Len(keywords) > 1

\* The same for getPlaceDetailsBatch: a task that has started sends no
\* further request, and a task that has resolved stays resolved, so each
\* listed id is fetched at most once per occurrence.
C21_BatchNoRefetch ==
  [][\A i \in DOMAIN tasks :
       /\ tasks[i].st # "queued" => requested'[i] = requested[i]
       /\ tasks[i].st = "done" => tasks'[i] = tasks[i]]_vars

(***************************************************************************)
(* C22.  Within one run of searchTurfs at most one search request is in    *)
(* flight at any time.  A search call is in flight while the run waits at  *)
(* "nearby" or at "text".  nearbySearch is called from the start only; a   *)
(* textSearch is called only while no call is in flight, after the nearby  *)
(* search has resolved (returned or failed), and it carries the keyword    *)
(* that follows, in the keyword list, the ones already issued.             *)
(***************************************************************************)
C22_InFlight == searchPc \in {"nearby", "text"}

C22_OneAtATime ==
  [][/\ nearbyCalls' # nearbyCalls => (~C22_InFlight /\ issued = <<>> /\ lastPass = "none")
     /\ issued' # issued =>
          /\ ~C22_InFlight
          /\ lastPass # "none"
          /\ Len(issued) < Len(keywords)
          /\ issued' = SubSeq(keywords, 1, Len(issued) + 1)]_vars

\* The third keyword search is in flight; of the calls before it one has
\* returned and the last one has failed.
C22_Witness ==
  /\ searchPc = "text"
  /\ Len(issued) = 3
  /\ issued = SubSeq(keywords, 1, 3)
  /\ anyPassOk
  /\ lastPass = "error"

(***************************************************************************)
(* C30.  The early-stop test in searchTurfs counts unique places before    *)
(* exclusion filtering: a keyword search that has returned ends the loop   *)
(* exactly when the accumulated, unfiltered count has reached maxResults,  *)
(* so whenever remaining keywords are skipped that count is at least       *)
(* maxResults; the list returned has min(maxResults, accumulated minus     *)
(* excluded) places and can be shorter than maxResults while keywords      *)
(* remain unqueried.                                                       *)
(***************************************************************************)
C30_Excluded ==
  Cardinality({i \in DOMAIN allPlaces :
                 allPlaces[i] \in C5_NameHits \/ allPlaces[i] \in C5_TypeHits})

C30_EarlyStopBeforeFilter ==
  [][/\ (searchPc = "text" /\ lastPass' = "ok") =>
          ((searchPc' = "exit") <=> (Len(allPlaces') >= maxResults))
     /\ (searchPc' = "exit") => (Len(allPlaces') >= maxResults)
     /\ (searchPc' = "done" /\ Len(issued) < Len(keywords)) =>
          /\ Len(allPlaces) >= maxResults
          /\ Len(searchResult') = Min(maxResults, Len(allPlaces) - C30_Excluded)]_vars

\* The loop stopped after the first keyword with two places accumulated, one
\* of them excluded: one place is returned for maxResults = 2, nine keywords
\* unqueried.
C30_Witness ==
  /\ searchPc = "done"
  /\ maxResults = 2
  /\ Len(allPlaces) = 2
  /\ C30_Excluded = 1
  /\ Len(searchResult) = 1
  /\ Len(issued) = 1
  /\ Len(keywords) > 1

(***************************************************************************)
(* The client's cached operations (google.ts), each as one call: the cache *)
(* lookup, the request when the lookup misses, and the cache write.  An    *)
(* operation yields the value returned, the error raised ("none" when it   *)
(* returns), whether a request was sent, and the cache's map afterwards.   *)
(***************************************************************************)
\* if (cached): a cached object or array, the empty array included, is truthy.
truthy(v) == v # Null

\* What the geocoding endpoint can answer: status OK with a first result (one
\* of two), status OK with no result, ZERO_RESULTS, another status, or a
\* network-level failure.
GeocodeResults == {"geoA", "geoB"}
GeocodeOutcomes ==
  GeocodeResults \cup {"OK_no_results", "ZERO_RESULTS", "REQUEST_DENIED", "network_error"}

\* What a search endpoint can answer: a list of places (possibly empty), a
\* non-success status, or a network-level failure.
SearchResults == {"[placeA, placeC]", "[]"}
SearchOutcomes == SearchResults \cup {"http_error", "network_error"}

geocodeLocation(address, options, outcome, c, key, t) ==
  LET cacheKey == generateKey(<<<<"address", Str(address)>>>> \o options)
      looked == get(c, cacheKey, t)
  IN  IF truthy(looked.ret)
        THEN [result |-> looked.ret, error |-> "none", remote |-> FALSE, cache |-> looked.cache]
        ELSE IF getApiKeyThrows(key)
          THEN [result |-> Null, error |-> "GoogleApiError", remote |-> FALSE,
                cache |-> looked.cache]
          ELSE IF outcome \in GeocodeResults
            THEN [result |-> outcome, error |-> "none", remote |-> TRUE,
                  cache |-> set(looked.cache, cacheKey, outcome, t, cacheTtlMs)]
            ELSE [result |-> Null, error |-> "GeocodingError", remote |-> TRUE,
                  cache |-> looked.cache]

\* nearbySearch and textSearch differ in the key's type and in the request body.
searchCall(type, options, outcome, c, key, t) ==
  LET cacheKey == generateKey(<<<<"type", Str(type)>>>> \o options)
      looked == get(c, cacheKey, t)
  IN  IF truthy(looked.ret)
        THEN [result |-> looked.ret, error |-> "none", remote |-> FALSE, cache |-> looked.cache]
        ELSE IF getApiKeyThrows(key)
          THEN [result |-> Null, error |-> "GoogleApiError", remote |-> FALSE,
                cache |-> looked.cache]
          ELSE IF outcome \in SearchResults
            THEN [result |-> outcome, error |-> "none", remote |-> TRUE,
                  cache |-> set(looked.cache, cacheKey, outcome, t, cacheTtlMs)]
            ELSE [result |-> Null, error |-> "GoogleApiError", remote |-> TRUE,
                  cache |-> looked.cache]

\* Mutant: a failed nearby search leaves an empty list in the cache.
nearbySearchCachesFailure(options, outcome, c, key, t) ==
  LET call == searchCall("nearby", options, outcome, c, key, t)
  IN  IF call.remote /\ call.error # "none"
        THEN [call EXCEPT !.cache =
                set(c, generateKey(<<<<"type", Str("nearby")>>>> \o options), "[]", t,
                    cacheTtlMs)]
        ELSE call

nearbySearch(options, outcome, c, key, t) == searchCall("nearby", options, outcome, c, key, t)

\* Mutant: textSearch goes to the network without looking in the cache.
textSearchUncached(options, outcome, c, key, t) ==
  LET cacheKey == generateKey(<<<<"type", Str("text")>>>> \o options)
  IN  IF getApiKeyThrows(key)
        THEN [result |-> Null, error |-> "GoogleApiError", remote |-> FALSE, cache |-> c]
        ELSE IF outcome \in SearchResults
          THEN [result |-> outcome, error |-> "none", remote |-> TRUE,
                cache |-> set(c, cacheKey, outcome, t, cacheTtlMs)]
          ELSE [result |-> Null, error |-> "GoogleApiError", remote |-> TRUE, cache |-> c]

textSearch(options, outcome, c, key, t) == searchCall("text", options, outcome, c, key, t)

getPlaceDetails(placeId, outcome, c, key, t) ==
  LET b == getPlaceDetailsBegin(placeId, c, key, t)
      e == getPlaceDetailsEnd(placeId, outcome, b.cache, t)
  IN  IF b.phase = "fetching"
        THEN [result |-> e.value, error |-> IF e.threw THEN "Error" ELSE "none",
              remote |-> TRUE, cache |-> e.cache]
        ELSE [result |-> b.value, error |-> "none", remote |-> FALSE, cache |-> b.cache]

(***************************************************************************)
(* Spec: the client under calls of its four cached operations.             *)
(***************************************************************************)
Addresses == {"HSR Layout"}
GeocodeOptionSet == {<<<<"region", Str("in")>>>>}

NearbyOptionSet ==
  {<<<<"lat", NumText("12.9121")>>, <<"lng", NumText("77.6446")>>,
     <<"radiusMeters", Num(5000)>>,
     <<"includedTypes", Arr("[\"sports_club\",\"sports_complex\",\"stadium\",\"gym\"]")>>,
     <<"maxResultCount", Num(20)>>>>}

TextOptionSet ==
  {<<<<"textQuery", Str(q)>>, <<"lat", NumText("12.9121")>>, <<"lng", NumText("77.6446")>>,
     <<"radiusMeters", Num(5000)>>, <<"maxResultCount", Num(20)>>>> : q \in {"turf"}}

DetailIds == {"p1"}

\* History: the value a request stored under a key of a cache, and when.
noteStored(st, cacheName, cacheKey, call, t) ==
  IF call.remote /\ call.error = "none" /\ call.result # Null
    THEN MapSet(st, <<cacheName, cacheKey>>, [value |-> call.result, at |-> t])
    ELSE st

\* History: what was stored is forgotten once its lifetime has passed.
stillLive(st, t) ==
  [k \in {j \in DOMAIN st : t <= st[j].at + cacheTtlMs} |-> st[k]]

\* The call is recorded with what the endpoint answered, when it was asked.
Call(fn, cacheName, cacheKey, outcome, call) ==
  /\ lastCall' = [fn |-> fn, cache |-> cacheName, key |-> cacheKey, remote |-> call.remote,
                  outcome |-> IF call.remote THEN outcome ELSE "none",
                  result |-> call.result, error |-> call.error]
  /\ stored' = noteStored(stored, cacheName, cacheKey, call, now)
  /\ UNCHANGED <<apiKey, clockVars, cacheVars, batchVars, searchVars, pureVars>>

GeocodeLocation ==
  \E address \in Addresses, options \in GeocodeOptionSet, outcome \in GeocodeOutcomes :
    LET call == geocodeLocation(address, options, outcome, geocodeCache, apiKey, now)
    IN  /\ geocodeCache' = call.cache
        /\ Call("geocodeLocation", "geocode",
                generateKey(<<<<"address", Str(address)>>>> \o options), outcome, call)
        /\ UNCHANGED <<searchCache, detailsCache>>

NearbySearch ==
  \E options \in NearbyOptionSet, outcome \in SearchOutcomes :
    LET call == nearbySearch(options, outcome, searchCache, apiKey, now)
    IN  /\ searchCache' = call.cache
        /\ Call("nearbySearch", "search",
                generateKey(<<<<"type", Str("nearby")>>>> \o options), outcome, call)
        /\ UNCHANGED <<geocodeCache, detailsCache>>

TextSearch ==
  \E options \in TextOptionSet, outcome \in SearchOutcomes :
    LET call == textSearch(options, outcome, searchCache, apiKey, now)
    IN  /\ searchCache' = call.cache
        /\ Call("textSearch", "search",
                generateKey(<<<<"type", Str("text")>>>> \o options), outcome, call)
        /\ UNCHANGED <<geocodeCache, detailsCache>>

GetPlaceDetails ==
  \E placeId \in DetailIds, outcome \in FetchOutcomes :
    LET call == getPlaceDetails(placeId, outcome, detailsCache, apiKey, now)
    IN  /\ detailsCache' = call.cache
        /\ Call("getPlaceDetails", "details", DetailsKey(placeId), outcome, call)
        /\ UNCHANGED <<geocodeCache, searchCache>>

\* The keys a caller hands to setApiKey: a key, or the empty string.
ApiKeys == {"key", ""}

\* setApiKey(key): apiKey = key, whatever the key.
SetApiKey ==
  /\ \E key \in ApiKeys :
       /\ apiKey' = key
       /\ lastCall' = [fn |-> "setApiKey", key |-> key]
  /\ UNCHANGED <<geocodeCache, searchCache, detailsCache, stored,
                 clockVars, cacheVars, batchVars, searchVars, pureVars>>

\* clearCaches()
ClearCaches ==
  /\ geocodeCache' = clear(geocodeCache)
  /\ searchCache' = clear(searchCache)
  /\ detailsCache' = clear(detailsCache)
  /\ stored' = EmptyMap
  /\ lastCall' = [fn |-> "clearCaches"]
  /\ UNCHANGED <<apiKey, clockVars, cacheVars, batchVars, searchVars, pureVars>>

\* Time passes between two calls: exactly an entry's lifetime, or one
\* millisecond more.
ClientTickDeltas == {cacheTtlMs, cacheTtlMs + 1}

TickClient ==
  /\ ticks < MaxClientTicks
  /\ \E d \in ClientTickDeltas : now' = now + d
  /\ ticks' = ticks + 1
  /\ lastCall' = [fn |-> "tick"]
  /\ stored' = stillLive(stored, now')
  /\ UNCHANGED <<clientVars, cacheVars, batchVars, searchVars, pureVars>>

Init ==
  /\ ClockInit
  /\ CacheIdle
  /\ BatchIdle
  /\ SearchIdle
  /\ apiKey = Null
  /\ geocodeCache = EmptyMap
  /\ searchCache = EmptyMap
  /\ detailsCache = EmptyMap
  /\ lastCall = [fn |-> "load"]
  /\ PureIdle
  /\ stored = EmptyMap

Next ==
  \/ GeocodeLocation
  \/ NearbySearch
  \/ TextSearch
  \/ GetPlaceDetails
  \/ SetApiKey
  \/ ClearCaches
  \/ TickClient

Spec == Init /\ [][Next]_vars

(***************************************************************************)
(* C9.  For geocodeLocation, nearbySearch, textSearch and getPlaceDetails: *)
(* after a call that succeeded at time t, a later call with the same       *)
(* parameters made while the entry has not expired (now <= t + TTL, the    *)
(* caches not cleared in between) sends no request and returns the value   *)
(* the first call stored.                                                  *)
(***************************************************************************)
CachedOperations == {"geocodeLocation", "nearbySearch", "textSearch", "getPlaceDetails"}

\* The singleton a call's cache name stands for.
cacheNamed(name) ==
  IF name = "geocode" THEN geocodeCache
  ELSE IF name = "search" THEN searchCache
  ELSE detailsCache

C9_HitSendsNoRequest ==
  [][(/\ lastCall'.fn \in CachedOperations
      /\ <<lastCall'.cache, lastCall'.key>> \in DOMAIN stored
      /\ now <= stored[<<lastCall'.cache, lastCall'.key>>].at + cacheTtlMs)
     => /\ lastCall'.remote = FALSE
        /\ lastCall'.error = "none"
        /\ lastCall'.result = stored[<<lastCall'.cache, lastCall'.key>>].value]_vars

\* A call was answered from the cache at the very end of the entry's life.
C9_Witness ==
  /\ lastCall.fn \in CachedOperations
  /\ lastCall.remote = FALSE
  /\ lastCall.error = "none"
  /\ <<lastCall.cache, lastCall.key>> \in DOMAIN stored
  /\ lastCall.result = stored[<<lastCall.cache, lastCall.key>>].value
  /\ now = stored[<<lastCall.cache, lastCall.key>>].at + cacheTtlMs

(***************************************************************************)
(* C27.  A cache entry is written only after a successful remote call.     *)
(* A call has failed when it raised or returned null (error status,        *)
(* transport error, null detail result, no key).                           *)
(*                                                                         *)
(* As claimed: a failed call of geocodeLocation, nearbySearch, textSearch  *)
(* or getPlaceDetails leaves all three caches exactly as they were.        *)
(***************************************************************************)
C27_Failed(call) ==
  /\ call.fn \in CachedOperations
  /\ (call.error # "none" \/ call.result = Null)

C27_CachesUntouched ==
  [][C27_Failed(lastCall') =>
       /\ geocodeCache' = geocodeCache
       /\ searchCache' = searchCache
       /\ detailsCache' = detailsCache]_vars

(***************************************************************************)
(* C27, as the code has it.  A failed call writes no entry: the two caches *)
(* it does not use are left as they were, and its own cache is as its      *)
(* lookup left it, which removes the entry under the call's key when that  *)
(* entry had expired and changes nothing else.  The key is then absent or  *)
(* expired, so the next call with the same parameters, made with a key     *)
(* set, issues a remote request again.                                     *)
(***************************************************************************)
C27_After(name, before) ==
  IF name = lastCall'.cache THEN get(before, lastCall'.key, now).cache ELSE before

C27_NoWriteOnFailure ==
  [][/\ C27_Failed(lastCall') =>
          /\ geocodeCache' = C27_After("geocode", geocodeCache)
          /\ searchCache' = C27_After("search", searchCache)
          /\ detailsCache' = C27_After("details", detailsCache)
          /\ lastCall'.key \notin DOMAIN C27_After(lastCall'.cache, cacheNamed(lastCall'.cache))
               \/ C27_After(lastCall'.cache, cacheNamed(lastCall'.cache))
                    = cacheNamed(lastCall'.cache)
     /\ (/\ C27_Failed(lastCall)
         /\ lastCall'.fn = lastCall.fn
         /\ lastCall'.key = lastCall.key
         /\ isApiKeyConfigured(apiKey)
         /\ lastCall'.fn \in CachedOperations)
        => lastCall'.remote]_vars

\* A geocoding request failed one millisecond after the lifetime of what
\* was stored at time 0: the geocode cache is empty, while the search cache
\* still holds its entry of that time.
C27_Witness ==
  /\ now = cacheTtlMs + 1
  /\ lastCall.fn = "geocodeLocation"
  /\ lastCall.remote
  /\ lastCall.error = "GeocodingError"
  /\ geocodeCache = EmptyMap
  /\ searchCache # EmptyMap

(***************************************************************************)
(* C29.  While no API key is set (apiKey null or empty), no remote request *)
(* is sent on a cache miss: nearbySearch and textSearch raise              *)
(* GoogleApiError, getPlaceDetails returns null, and geocodeLocation       *)
(* raises the GoogleApiError of getApiKey, not a GeocodingError.           *)
(* isApiKeyConfigured is false at load, and after a call of setApiKey it   *)
(* is true exactly when the key handed over was not empty; no other        *)
(* operation changes it.                                                   *)
(***************************************************************************)
C29_NoKeyNoRequest ==
  [][/\ (/\ lastCall'.fn \in CachedOperations
         /\ ~isApiKeyConfigured(apiKey)
         /\ ~truthy(get(cacheNamed(lastCall'.cache), lastCall'.key, now).ret))
        => /\ lastCall'.remote = FALSE
           /\ lastCall'.result = Null
           /\ lastCall'.error =
                (IF lastCall'.fn = "getPlaceDetails" THEN "none" ELSE "GoogleApiError")
     /\ lastCall.fn = "load" => ~isApiKeyConfigured(apiKey)
     /\ lastCall'.fn = "setApiKey"
        => (isApiKeyConfigured(apiKey') <=> lastCall'.key # "")
     /\ lastCall'.fn # "setApiKey"
        => (isApiKeyConfigured(apiKey') <=> isApiKeyConfigured(apiKey))]_vars

\* The same for searchTurfs, which catches the GoogleApiError of every
\* search call: with no key set it returns an empty list, having tried the
\* nearby search and every keyword.
C29_SearchTurfsEmpty ==
  (searchPc = "done" /\ ~isApiKeyConfigured(apiKey)) =>
    /\ searchResult = <<>>
    /\ allPlaces = <<>>
    /\ ~anyPassOk
    /\ Len(issued) = Len(keywords)

\* setApiKey was called with the empty string after a key had been set, and
\* geocodeLocation then missed its cache: GoogleApiError, no request.
C29_Witness ==
  /\ apiKey = ""
  /\ lastCall.fn = "geocodeLocation"
  /\ lastCall.remote = FALSE
  /\ lastCall.error = "GoogleApiError"
  /\ searchCache # EmptyMap

(***************************************************************************)
(* SpecKey: TtlCache.generateKey applied to two parameter objects.         *)
(***************************************************************************)
KeyNames == {"lat", "lng", "radiusMeters"}

\* A finite number, the string of its digits, NaN, null and undefined.
KeyValues == {Num(12), Str("12"), NaN, JsNull, Undefined}

\* The objects with at most MaxParams properties, each name once, in every
\* insertion order.
ParamObjects ==
  {r \in SeqsUpTo(KeyNames \X KeyValues, MaxParams) :
     \A i, j \in DOMAIN r : r[i][1] = r[j][1] => i = j}

PureFrame == UNCHANGED <<clockVars, cacheVars, clientVars, callVars, batchVars, searchVars>>

GenerateKey ==
  /\ pc = "call"
  /\ returned' = <<generateKey(args[1]), generateKey(args[2])>>
  /\ pc' = "done"
  /\ UNCHANGED args
  /\ PureFrame

InitKey ==
  /\ ClockInit
  /\ CacheIdle
  /\ ClientIdle
  /\ CallIdle
  /\ BatchIdle
  /\ SearchIdle
  /\ args \in ParamObjects \X ParamObjects
  /\ returned = <<>>
  /\ pc = "call"

NextKey == GenerateKey

SpecKey == InitKey /\ [][NextKey]_vars

(***************************************************************************)
(* C14.  TtlCache.generateKey yields the same key for two parameter        *)
(* objects that have the same set of name/value pairs, whatever their      *)
(* insertion order, and distinct keys for objects that differ in some name *)
(* or value.                                                               *)
(***************************************************************************)
C14_Pairs(params) == {params[i] : i \in DOMAIN params}

C14_KeyIdentity ==
  pc = "done" =>
    ((C14_Pairs(args[1]) = C14_Pairs(args[2])) <=> (returned[1] = returned[2]))

(***************************************************************************)
(* C15.  getPlaceDetails(id) never raises: on a non-success HTTP status    *)
(* and on any transport or parse error it returns null.                    *)
(***************************************************************************)
C15_DetailsNeverRaise ==
  lastCall.fn = "getPlaceDetails" =>
    /\ lastCall.error = "none"
    /\ lastCall.outcome \in FetchFailures => lastCall.result = Null

\* A details request that failed in transport has returned null.
C15_Witness ==
  /\ lastCall.fn = "getPlaceDetails"
  /\ lastCall.outcome = "transport_error"
  /\ lastCall.error = "none"
  /\ lastCall.result = Null

(***************************************************************************)
(* C16.  Every failure of geocodeLocation reaches the caller as a          *)
(* GeocodingError: ZERO_RESULTS, any other non-OK status and a             *)
(* network-level failure all surface as that one error kind, and no other  *)
(* error kind escapes geocodeLocation.                                     *)
(***************************************************************************)
C16_OnlyGeocodingError ==
  lastCall.fn = "geocodeLocation" =>
    /\ lastCall.error \in {"none", "GeocodingError"}
    /\ lastCall.outcome \in (GeocodeOutcomes \ GeocodeResults)
         => lastCall.error = "GeocodingError"

(***************************************************************************)
(* SpecRequest: the request bodies nearbySearch and textSearch build from  *)
(* their options, called directly or by searchTurfs.                       *)
(***************************************************************************)
\* requestBody of nearbySearch and of textSearch: the circle's radius and
\* maxResultCount.  maxResultCount is an optional property of the options.
requestBody(options) ==
  [radius |-> Min(options.radiusMeters, radiusMax),
   maxResultCount |->
     IF "maxResultCount" \in DOMAIN options
       THEN bodyMaxResultCount(options.maxResultCount)
       ELSE defaultMaxResults]

\* The options searchTurfs hands to nearbySearch and to each textSearch.
searchTurfsOptions(radiusKm, max) ==
  [radiusMeters |-> radiusKm * 1000, maxResultCount |-> optionsMaxResultCount(max)]

RadiusMetersChoices == {1, 5000, radiusMax, radiusMax + 1}
RadiusKmChoices == {1, 5, 50, 51}
CountChoices == {0, 1, pageMax - 1, pageMax, pageMax + 1, defaultMaxResults}

SearchOptionsSet ==
  [radiusMeters : RadiusMetersChoices]
    \cup [radiusMeters : RadiusMetersChoices, maxResultCount : CountChoices]

\* nearbySearch(options) and textSearch(options) on a cache miss: one request.
NearbyRequest ==
  /\ pc = "call"
  /\ args.fn = "nearbySearch"
  /\ returned' = <<requestBody(args.options)>>
  /\ pc' = "done"
  /\ UNCHANGED args
  /\ PureFrame

TextRequest ==
  /\ pc = "call"
  /\ args.fn = "textSearch"
  /\ returned' = <<requestBody(args.options)>>
  /\ pc' = "done"
  /\ UNCHANGED args
  /\ PureFrame

\* searchTurfs(lat, lng, radiusKm, keyword, maxResults): the nearby request and
\* the request of a keyword search, which all carry the same options.
SearchTurfsRequests ==
  /\ pc = "call"
  /\ args.fn = "searchTurfs"
  /\ returned' = <<requestBody(searchTurfsOptions(args.radiusKm, args.maxResults)),
                   requestBody(searchTurfsOptions(args.radiusKm, args.maxResults))>>
  /\ pc' = "done"
  /\ UNCHANGED args
  /\ PureFrame

InitRequest ==
  /\ ClockInit
  /\ CacheIdle
  /\ ClientIdle
  /\ CallIdle
  /\ BatchIdle
  /\ SearchIdle
  /\ args \in [fn : {"nearbySearch", "textSearch"}, options : SearchOptionsSet]
                \cup [fn : {"searchTurfs"}, radiusKm : RadiusKmChoices,
                      maxResults : CountChoices]
  /\ returned = <<>>
  /\ pc = "call"

NextRequest ==
  \/ NearbyRequest
  \/ TextRequest
  \/ SearchTurfsRequests

SpecRequest == InitRequest /\ [][NextRequest]_vars

(***************************************************************************)
(* C17.  Every request sent by nearbySearch or textSearch, for every value *)
(* of their options and for every maxResults passed to searchTurfs,        *)
(* carries a circle radius of at most 50000 metres and a maxResultCount of *)
(* at most 20.                                                             *)
(***************************************************************************)
C17_RequestCaps ==
  pc = "done" =>
    \A i \in DOMAIN returned :
      /\ returned[i].radius <= radiusMax
      /\ returned[i].maxResultCount <= pageMax

(***************************************************************************)
(* The result builder (server.ts and index.ts carry the same code).  A     *)
(* provider record is a record whose optional properties may be missing;   *)
(* scalar values are strings, a text that is measured or cut is a sequence *)
(* of characters, and details is <<>> for null and <<record>> otherwise.   *)
(***************************************************************************)
\* details?.property: the properties of null are all undefined.
optional(details) == IF details = <<>> THEN [f \in {} |-> ""] ELSE details[1]

\* String.prototype.substring(start, end) with 0 <= start, on a text's characters.
substring(text, start, end) ==
  LET last == IF end < 0 THEN 0 ELSE Min(end, Len(text))
  IN  IF last <= start THEN <<>> ELSE SubSeq(text, start + 1, last)

Ellipsis == <<".", ".", ".">>

\* Mutant: the ellipsis is appended to the first maxLength characters.
truncateTextLate(text, maxLength) ==
  IF Len(text) <= maxLength THEN text ELSE substring(text, 0, maxLength) \o Ellipsis

\* truncateText(text, maxLength)
truncateText(text, maxLength) ==
  IF Len(text) <= maxLength THEN text ELSE substring(text, 0, maxLength - 3) \o Ellipsis

\* getPhotoUrl(photoName): the media URL, which carries the API key.
\* getApiKey() throws when no key has been set.
getPhotoUrl(photoName, key) ==
  IF getApiKeyThrows(key) THEN "GoogleApiError"
  ELSE "https://places.googleapis.com/v1/" \o photoName
         \o "/media?maxWidthPx=400&maxHeightPx=400&key=" \o key

\* getPhotoUrls(photos, maxPhotos); photos is <<>> when undefined or empty.
getPhotoUrls(photos, maxPhotos, key) ==
  [i \in 1..Min(maxPhotos, Len(photos)) |-> getPhotoUrl(photos[i], key)]

\* a || b || sentinel on strings: undefined and the empty string are falsy.
truthyText(rec, f) == f \in DOMAIN rec /\ rec[f] # ""

firstText(d, place, f, sentinel) ==
  IF truthyText(d, f) THEN d[f]
  ELSE IF truthyText(place, f) THEN place[f] ELSE sentinel

\* Mutant: || in place of ??, so that 0 and false fall through to the summary.
firstDefinedTruthy(d, place, f) ==
  IF f \in DOMAIN d /\ d[f] \notin {"0", "false"} THEN d[f]
  ELSE IF f \in DOMAIN place /\ place[f] \notin {"0", "false"} THEN place[f] ELSE Null

\* a ?? b ?? null: only undefined (and null) fall through.
firstDefined(d, place, f) ==
  IF f \in DOMAIN d THEN d[f]
  ELSE IF f \in DOMAIN place THEN place[f] ELSE Null

\* review.text?.text || review.originalText?.text || ''
reviewText(review) ==
  IF "text" \in DOMAIN review /\ review.text # <<>> THEN review.text
  ELSE IF "originalText" \in DOMAIN review /\ review.originalText # <<>>
    THEN review.originalText
    ELSE <<>>

\* One element of topReviews.
turfReview(review) ==
  [author |-> IF truthyText(review, "author") THEN review.author ELSE "Anonymous",
   rating |-> IF "rating" \in DOMAIN review THEN review.rating ELSE Null,
   relativeTime |-> IF truthyText(review, "relativeTime") THEN review.relativeTime ELSE "",
   text |-> truncateText(reviewText(review), reviewTextMax)]

\* Mutant: the last three reviews are taken.
topReviewsLast(d) ==
  LET reviews == IF "reviews" \in DOMAIN d THEN d.reviews ELSE <<>>
      from == IF Len(reviews) > 3 THEN Len(reviews) - 2 ELSE 1
  IN  [i \in 1..Min(3, Len(reviews)) |-> turfReview(reviews[from + i - 1])]

\* (details?.reviews || []).slice(0, 3).map(...)
topReviews(d) ==
  LET reviews == IF "reviews" \in DOMAIN d THEN d.reviews ELSE <<>>
      kept == slice(reviews, 3)
  IN  [i \in 1..Len(kept) |-> turfReview(kept[i])]

buildTurfResult(place, details, distanceKm, key) ==
  LET d == optional(details)
      photos == IF "photos" \in DOMAIN d THEN d.photos
                ELSE IF "photos" \in DOMAIN place THEN place.photos ELSE <<>>
  IN  [placeId |-> place.id,
       name |-> firstText(d, place, "displayName", "Unknown"),
       distanceKm |-> distanceKm,
       address |-> firstText(d, place, "formattedAddress", "Address not available"),
       mapsUrl |-> IF truthyText(d, "googleMapsUri") THEN d.googleMapsUri
                   ELSE "https://www.google.com/maps/place/?q=place_id:" \o place.id,
       phone |-> IF truthyText(d, "internationalPhoneNumber") THEN d.internationalPhoneNumber
                 ELSE IF truthyText(d, "nationalPhoneNumber") THEN d.nationalPhoneNumber
                 ELSE Null,
       openNow |-> firstDefined(d, place, "openNow"),
       rating |-> firstDefined(d, place, "rating"),
       userRatingsTotal |-> firstDefined(d, place, "userRatingCount"),
       photos |-> getPhotoUrls(photos, 3, key),
       topReviews |-> topReviews(d),
       lat |-> firstDefined(d, place, "latitude"),
       lng |-> firstDefined(d, place, "longitude")]

(***************************************************************************)
(* SpecBuild: buildTurfResult applied to a summary record and a detail     *)
(* record (or null).                                                       *)
(***************************************************************************)
\* A text of n characters, each one telling its position.
Text(n) == [i \in 1..n |-> ToString(i)]

\* The records of S, and each of them with property f set to a value of vals.
WithOptional(S, f, vals) ==
  S \cup {[g \in (DOMAIN r) \cup {f} |-> IF g = f THEN v ELSE r[g]] : r \in S, v \in vals}

\* Summary records: every resolved property missing or present.
Summaries ==
  WithOptional(WithOptional(WithOptional(WithOptional(WithOptional(WithOptional(WithOptional(
    {[id |-> "p1"]},
    "displayName", {"", "Summary Turf"}),
    "formattedAddress", {"1 Summary Road"}),
    "rating", {"3.8"}),
    "userRatingCount", {"12"}),
    "openNow", {"true"}),
    "latitude", {"12.91"}),
    "longitude", {"77.64"})

\* Detail records that vary in the resolved properties.
FieldDetails ==
  WithOptional(WithOptional(WithOptional(WithOptional(WithOptional(WithOptional(WithOptional(
    {[id |-> "p1"]},
    "displayName", {"", "Detail Turf"}),
    "formattedAddress", {"2 Detail Road"}),
    "rating", {"4.5", "0"}),
    "userRatingCount", {"0"}),
    "openNow", {"true", "false"}),
    "latitude", {"12.92"}),
    "longitude", {"77.65"})

\* Reviews as the provider sends them: a long text with every property, an
\* empty text with an original text, and a review with no property at all.
ReviewFull ==
  [author |-> "Asha", rating |-> "5", relativeTime |-> "a week ago", text |-> Text(241)]
ReviewOriginal == [author |-> "", text |-> <<>>, originalText |-> Text(2)]
ReviewBare == [r \in {} |-> ""]
Reviews == {ReviewFull, ReviewOriginal, ReviewBare}

PhotoNames == <<"places/p1/photos/a", "places/p1/photos/b", "places/p1/photos/c",
                "places/p1/photos/d", "places/p1/photos/e">>

\* Detail records that vary in reviews, photos, phone numbers and the maps link.
ExtraDetails ==
  WithOptional(WithOptional(WithOptional(WithOptional(WithOptional(
    {[id |-> "p1", rating |-> "4.5"]},
    "reviews", SeqsUpTo(Reviews, MaxReviews)),
    "photos", {SubSeq(PhotoNames, 1, n) : n \in 0..MaxPhotos}),
    "internationalPhoneNumber", {"+91 80 1234 5678"}),
    "nationalPhoneNumber", {"080 1234 5678"}),
    "googleMapsUri", {"https://maps.google.com/?cid=1"})

\* Summary records next to them: with or without photos, and one that carries
\* reviews, which NearbySearchPlace does not declare.
ExtraSummaries ==
  {[id |-> "p1", displayName |-> "Summary Turf"],
   [id |-> "p1", displayName |-> "Summary Turf", photos |-> <<"places/p1/photos/s">>],
   [id |-> "p1", displayName |-> "Summary Turf", reviews |-> <<ReviewFull>>]}

BuildInputs ==
  ((Summaries \X ({<<>>} \cup {<<d>> : d \in FieldDetails}))
     \cup (ExtraSummaries \X ({<<>>} \cup {<<d>> : d \in ExtraDetails})))
    \X {"1.2"}

\* The front ends build results only once the API key has been set.
BuildTurfResult ==
  /\ pc = "call"
  /\ args.fn = "buildTurfResult"
  /\ returned' = buildTurfResult(args.place, args.details, args.distanceKm, "key")
  /\ pc' = "done"
  /\ UNCHANGED args
  /\ PureFrame

InitBuild ==
  /\ ClockInit
  /\ CacheIdle
  /\ ClientIdle
  /\ CallIdle
  /\ BatchIdle
  /\ SearchIdle
  /\ \E in \in BuildInputs :
       args = [fn |-> "buildTurfResult", place |-> in[1][1], details |-> in[1][2],
               distanceKm |-> in[2]]
  /\ returned = <<>>
  /\ pc = "call"

NextBuild == BuildTurfResult

SpecBuild == InitBuild /\ [][NextBuild]_vars

(***************************************************************************)
(* C18.  buildTurfResult resolves name, address, rating, rating count,     *)
(* open-now status and the two coordinates independently per field: the    *)
(* detail record's value when the detail record has one, else the summary  *)
(* record's, else the sentinel 'Unknown', 'Address not available' or null. *)
(* A name or an address has a value when it is a non-empty string; the     *)
(* other fields when the property is there, 0 and false included.          *)
(***************************************************************************)
C18_Fields ==
  {[field |-> "name", prop |-> "displayName", sentinel |-> "Unknown", text |-> TRUE],
   [field |-> "address", prop |-> "formattedAddress",
    sentinel |-> "Address not available", text |-> TRUE],
   [field |-> "rating", prop |-> "rating", sentinel |-> Null, text |-> FALSE],
   [field |-> "userRatingsTotal", prop |-> "userRatingCount", sentinel |-> Null,
    text |-> FALSE],
   [field |-> "openNow", prop |-> "openNow", sentinel |-> Null, text |-> FALSE],
   [field |-> "lat", prop |-> "latitude", sentinel |-> Null, text |-> FALSE],
   [field |-> "lng", prop |-> "longitude", sentinel |-> Null, text |-> FALSE]}

C18_HasValue(rec, row) == row.prop \in DOMAIN rec /\ (row.text => rec[row.prop] # "")

C18_DetailWins ==
  pc = "done" =>
    \A row \in C18_Fields :
      returned[row.field] =
        IF args.details # <<>> /\ C18_HasValue(args.details[1], row)
          THEN args.details[1][row.prop]
          ELSE IF C18_HasValue(args.place, row)
                 THEN args.place[row.prop]
                 ELSE row.sentinel

\* The detail record has a name and no rating, the summary record a rating
\* of 3.8: the result has the detail's name and the summary's rating.
C18_Witness ==
  /\ pc = "done"
  /\ args.details # <<>>
  /\ "rating" \notin DOMAIN args.details[1]
  /\ "displayName" \in DOMAIN args.details[1]
  /\ returned.name = "Detail Turf"
  /\ returned.rating = "3.8"

(***************************************************************************)
(* C19.  The topReviews of a built result are the first min(3, n) reviews  *)
(* of the detail record in the provider's order; the list is empty when    *)
(* the detail record is null or has no reviews; reviews are never taken    *)
(* from the summary record.                                                *)
(***************************************************************************)
C19_DetailReviews ==
  IF args.details # <<>> /\ "reviews" \in DOMAIN args.details[1]
    THEN args.details[1].reviews
    ELSE <<>>

C19_FirstThreeReviews ==
  pc = "done" =>
    /\ Len(returned.topReviews) = Min(3, Len(C19_DetailReviews))
    /\ \A i \in 1..Len(returned.topReviews) :
         returned.topReviews[i] = turfReview(C19_DetailReviews[i])

\* Four reviews, of which the first and the last differ: three are kept.
C19_Witness ==
  /\ pc = "done"
  /\ Len(C19_DetailReviews) = 4
  /\ C19_DetailReviews[1] # C19_DetailReviews[4]
  /\ Len(returned.topReviews) = 3
  /\ returned.topReviews[1] = turfReview(C19_DetailReviews[1])

(***************************************************************************)
(* SpecTruncate: truncateText(text, 240), as buildTurfResult calls it, on  *)
(* texts of every length up to MaxTextLen.                                 *)
(***************************************************************************)
TruncateText ==
  /\ pc = "call"
  /\ args.fn = "truncateText"
  /\ returned' = truncateText(args.text, args.maxLength)
  /\ pc' = "done"
  /\ UNCHANGED args
  /\ PureFrame

InitTruncate ==
  /\ ClockInit
  /\ CacheIdle
  /\ ClientIdle
  /\ CallIdle
  /\ BatchIdle
  /\ SearchIdle
  /\ \E n \in 0..MaxTextLen :
       args = [fn |-> "truncateText", text |-> Text(n), maxLength |-> reviewTextMax]
  /\ returned = <<>>
  /\ pc = "call"

NextTruncate == TruncateText

SpecTruncate == InitTruncate /\ [][NextTruncate]_vars

(***************************************************************************)
(* C20.  truncateText(text, 240) returns text unchanged when its length is *)
(* at most 240, and otherwise a string of length exactly 240: the first    *)
(* 237 characters of text followed by '...'.  The result is never longer   *)
(* than 240 characters.                                                    *)
(***************************************************************************)
C20_TruncateTo240 ==
  pc = "done" =>
    /\ Len(returned) <= 240
    /\ IF Len(args.text) <= 240
         THEN returned = args.text
         ELSE /\ Len(returned) = 240
              /\ SubSeq(returned, 1, 237) = SubSeq(args.text, 1, 237)
              /\ SubSeq(returned, 238, 240) = <<".", ".", ".">>

\* A text of 300 characters has been cut to 240.
C20_Witness ==
  /\ pc = "done"
  /\ Len(args.text) = 300
  /\ Len(returned) = 240
  /\ returned[237] = args.text[237]
  /\ returned[240] = "."

(***************************************************************************)
(* The front-end pipeline (server.ts POST /api/search; the CLI's main and  *)
(* the serverless handler have the same statements): what is done with the *)
(* list searchTurfs returned.  Distances are in hundredths of a kilometre, *)
(* the unit roundDistance rounds to.                                       *)
(***************************************************************************)
\* { place, distanceKm: Infinity } for a place without a usable location:
\* greater than every distance and every radius.
Infinity == 1000000

\* haversineDistance(query, location) in metres, tabulated for the latitudes
\* of the model's places (all on the query's meridian).
haversineDistance(latitude) ==
  CASE latitude = "12.9031" -> 996
    [] latitude = "12.9032" -> 1004
    [] latitude = "12.9033" -> 1006
    [] latitude = "12.9166" -> 2500

\* roundDistance(km) = Math.round(km * 100) / 100, on metres.
roundDistance(metres) == (metres + 5) \div 10

\* !placeLat || !placeLng: undefined and 0 are falsy.
falsyNumber(rec, f) == f \notin DOMAIN rec \/ rec[f] = "0"

\* places.map((place) => ({ place, distanceKm }))
withDistance(place) ==
  [place |-> place,
   distanceKm |-> IF falsyNumber(place, "latitude") \/ falsyNumber(place, "longitude")
                    THEN Infinity
                    ELSE roundDistance(haversineDistance(place.latitude))]

\* Mutant: the sort puts an element in front of the ones equal to it.
RECURSIVE sortTiesReversed(_)
sortTiesReversed(items) ==
  IF items = <<>>
    THEN <<>>
    ELSE LET rest == sortTiesReversed(SubSeq(items, 1, Len(items) - 1))
             x == items[Len(items)]
             before == Cardinality({i \in DOMAIN rest : rest[i].distanceKm < x.distanceKm})
         IN  SubSeq(rest, 1, before) \o <<x>> \o SubSeq(rest, before + 1, Len(rest))

\* .sort((a, b) => a.distanceKm - b.distanceKm): Array.prototype.sort is
\* stable; the last element goes behind everything not greater than it.
RECURSIVE sortByDistance(_)
sortByDistance(items) ==
  IF items = <<>>
    THEN <<>>
    ELSE LET rest == sortByDistance(SubSeq(items, 1, Len(items) - 1))
             x == items[Len(items)]
             before == Cardinality({i \in DOMAIN rest : rest[i].distanceKm <= x.distanceKm})
         IN  SubSeq(rest, 1, before) \o <<x>> \o SubSeq(rest, before + 1, Len(rest))

\* places.map(...).filter((p) => p.distanceKm <= radiusKm).sort(...)
rankPlaces(places, radiusKm) ==
  LET within(p) == p.distanceKm <= radiusKm
  IN  sortByDistance(SelectSeq([i \in DOMAIN places |-> withDistance(places[i])], within))

\* placesToEnrich.map(({ place, distanceKm }) =>
\*   buildTurfResult(place, detailsMap.get(place.id) || null, distanceKm))
buildResults(placesToEnrich, detailsMap, key) ==
  [i \in DOMAIN placesToEnrich |->
     buildTurfResult(placesToEnrich[i].place,
                     IF placesToEnrich[i].place.id \in DOMAIN detailsMap
                       THEN detailsMap[placesToEnrich[i].place.id] ELSE <<>>,
                     placesToEnrich[i].distanceKm, key)]

(***************************************************************************)
(* SpecPipeline: one request of the front end from the return of           *)
(* searchTurfs on, in the two halves the await of getPlaceDetailsBatch     *)
(* splits it into.                                                         *)
(***************************************************************************)
\* The places searchTurfs can return.  q1 and q2 round to the same distance
\* (1.00 km, from 1004 m and 996 m), q3 to 1.01 km, q4 to 2.50 km; q5 has no
\* location and q6 a latitude of 0.
PipelinePlaces ==
  {[id |-> "q1", displayName |-> "Turf q1", latitude |-> "12.9032", longitude |-> "77.6446"],
   [id |-> "q2", displayName |-> "Turf q2", latitude |-> "12.9031", longitude |-> "77.6446"],
   [id |-> "q3", displayName |-> "Turf q3", latitude |-> "12.9033", longitude |-> "77.6446"],
   [id |-> "q4", displayName |-> "Turf q4", latitude |-> "12.9166", longitude |-> "77.6446"],
   [id |-> "q5", displayName |-> "Turf q5"],
   [id |-> "q6", displayName |-> "Turf q6", latitude |-> "0", longitude |-> "77.6446"]}

\* searchTurfs returns each place id once: the lists of up to MaxPlaces
\* places without repetition, in every order.
PlaceLists ==
  {list \in SeqsUpTo(PipelinePlaces, MaxPlaces) :
     \A i, j \in DOMAIN list : list[i] = list[j] => i = j}

\* radiusKm: 1 km and 2.5 km.
RadiusChoices == {100, 250}

\* detailsLimit is taken from the request as it comes: any integer.
DetailsLimits == (0 - 1)..MaxDetailsLimit

\* The record the details endpoint has for a place.
detailOf(id) ==
  [id |-> id, displayName |-> "Detail " \o id,
   internationalPhoneNumber |-> "+91 80 1234 5678", reviews |-> <<ReviewOriginal>>]

\* What getPlaceDetailsBatch can return for a list of ids: a map with, for
\* each listed id, its record or null.
DetailsMaps(ids) ==
  {[id \in Elements(ids) |-> IF ok[id] THEN <<detailOf(id)>> ELSE <<>>] :
     ok \in [Elements(ids) -> BOOLEAN]}

\* From the return of searchTurfs to the call of getPlaceDetailsBatch.  An
\* empty list is answered at once.
RankPlaces ==
  /\ pc = "call"
  /\ args.fn = "search"
  /\ LET placesWithDistance == rankPlaces(args.places, args.radiusKm)
         placesToEnrich == slice(placesWithDistance, args.detailsLimit)
     IN  IF args.places = <<>>
           THEN /\ returned' = [output |-> [totalFound |-> 0, detailsFetched |-> 0,
                                            results |-> <<>>]]
                /\ pc' = "done"
           ELSE /\ returned' =
                     [placesWithDistance |-> placesWithDistance,
                      placesToEnrich |-> placesToEnrich,
                      placeIds |-> [i \in DOMAIN placesToEnrich |->
                                      placesToEnrich[i].place.id]]
                /\ pc' = "enrich"
  /\ UNCHANGED args
  /\ PureFrame

\* getPlaceDetailsBatch has returned its map: the results and the output
\* are built.  The API key was set before the search.
BuildOutput ==
  /\ pc = "enrich"
  /\ \E detailsMap \in DetailsMaps(returned.placeIds) :
       LET built == buildResults(returned.placesToEnrich, detailsMap, "key")
       IN  returned' =
             [placeIds |-> returned.placeIds,
              detailsMap |-> detailsMap,
              output |-> [totalFound |-> Len(returned.placesWithDistance),
                          detailsFetched |-> Len(built),
                          results |-> built]]
  /\ pc' = "done"
  /\ UNCHANGED args
  /\ PureFrame

InitPipeline ==
  /\ ClockInit
  /\ CacheIdle
  /\ ClientIdle
  /\ CallIdle
  /\ BatchIdle
  /\ SearchIdle
  /\ \E places \in PlaceLists, radiusKm \in RadiusChoices, detailsLimit \in DetailsLimits :
       args = [fn |-> "search", places |-> places, radiusKm |-> radiusKm,
               detailsLimit |-> detailsLimit]
  /\ returned = <<>>
  /\ pc = "call"

NextPipeline ==
  \/ RankPlaces
  \/ BuildOutput

SpecPipeline == InitPipeline /\ [][NextPipeline]_vars

(***************************************************************************)
(* C23.  In the front-end pipeline every place selected for enrichment     *)
(* appears exactly once in the output results, whether its detail fetch    *)
(* gave a record or null; a place whose fetch gave null is built from its  *)
(* summary alone (phone null, topReviews empty); detailsFetched is the     *)
(* number of selected places, which is min(detailsLimit, totalFound).      *)
(***************************************************************************)
C23_Selected == "placeIds" \in DOMAIN returned

C23_OnceEach ==
  LET out == returned.output
  IN  /\ \A i \in DOMAIN returned.placeIds :
           Cardinality({j \in DOMAIN out.results :
                          out.results[j].placeId = returned.placeIds[i]}) = 1
      /\ \A j \in DOMAIN out.results :
           LET id == out.results[j].placeId
           IN  /\ id \in Elements(returned.placeIds)
               /\ returned.detailsMap[id] = <<>> =>
                    /\ out.results[j].phone = Null
                    /\ out.results[j].topReviews = <<>>
                    /\ \E k \in DOMAIN args.places :
                         /\ args.places[k].id = id
                         /\ out.results[j].name = args.places[k].displayName
               /\ returned.detailsMap[id] # <<>> =>
                    /\ out.results[j].phone # Null
                    /\ out.results[j].name = returned.detailsMap[id][1].displayName
      /\ out.detailsFetched = Len(returned.placeIds)

C23_AllSelectedAppear ==
  (pc = "done" /\ C23_Selected) =>
    /\ C23_OnceEach
    /\ returned.output.detailsFetched = Min(args.detailsLimit, returned.output.totalFound)

\* The same for a detailsLimit that is a count: zero or more.
C23_CountLimit ==
  (pc = "done" /\ C23_Selected /\ args.detailsLimit >= 0) =>
    /\ C23_OnceEach
    /\ returned.output.detailsFetched = Min(args.detailsLimit, returned.output.totalFound)

\* With a negative detailsLimit every selected place still appears once.
C23_AnyLimit == (pc = "done" /\ C23_Selected) => C23_OnceEach

(***************************************************************************)
(* C25.  In the output, results are in non-decreasing order of distanceKm  *)
(* and every result has distanceKm <= radiusKm, inclusive, on the distance *)
(* rounded to two decimals: a place is counted in totalFound exactly when  *)
(* its rounded distance is at most the radius.  Places equal in distance   *)
(* keep the relative order in which searchTurfs returned them.             *)
(***************************************************************************)
\* The rounded distance of each located place, in hundredths of a kilometre.
C25_Km == [id \in {"q1", "q2", "q3", "q4"} |->
             IF id \in {"q1", "q2"} THEN 100 ELSE IF id = "q3" THEN 101 ELSE 250]

C25_At(id) == CHOOSE k \in DOMAIN args.places : args.places[k].id = id

====
